---- MODULE Spec2Model ----
(***************************************************************************)
(* Model of the activityStatistics record-normalisation and aggregation    *)
(* engine (justin65/activityStatistics).                                   *)
(*                                                                         *)
(* A text is a sequence of one-character tokens.  The parser accepts only  *)
(* ASCII inside string literals, so the non-ASCII characters of the source *)
(* are written as the tokens named below (FullColon, IdeoComma, ...), and  *)
(* the Chinese labels of the source are written as the ASCII labels named  *)
(* next to them.                                                           *)
(***************************************************************************)
EXTENDS Integers, Sequences, FiniteSets, TLC

(***************************************************************************)
(* Characters                                                              *)
(***************************************************************************)
FullColon == "fw:"
IdeoComma == "ideo,"
FullComma == "fw,"
FullLParen == "fw("
FullRParen == "fw)"
NL == "\n"
CR == "\r"
Space == " "

Digits == {"0", "1", "2", "3", "4", "5", "6", "7", "8", "9"}

DigitVal(c) ==
  CASE c = "0" -> 0 [] c = "1" -> 1 [] c = "2" -> 2 [] c = "3" -> 3
    [] c = "4" -> 4 [] c = "5" -> 5 [] c = "6" -> 6 [] c = "7" -> 7
    [] c = "8" -> 8 [] c = "9" -> 9

WhiteSpace == {Space, NL, CR}

(***************************************************************************)
(* String primitives of the language runtime, as the source uses them      *)
(***************************************************************************)
Min(S) == CHOOSE x \in S : \A y \in S : x <= y
Max(S) == CHOOSE x \in S : \A y \in S : x >= y

\* String.prototype.trim
Trim(s) ==
  LET keep == {i \in 1..Len(s) : s[i] \notin WhiteSpace}
  IN IF keep = {} THEN <<>> ELSE SubSeq(s, Min(keep), Max(keep))

\* String.prototype.includes for a one-character needle
IncludesChar(s, c) == \E i \in 1..Len(s) : s[i] = c

\* String.prototype.includes for a needle of any length
Includes(s, sub) ==
  \E i \in 1..(Len(s) - Len(sub) + 1) : SubSeq(s, i, i + Len(sub) - 1) = sub

\* String.prototype.split on a single character: empty parts are kept
RECURSIVE Split(_, _)
Split(s, c) ==
  LET hits == {i \in 1..Len(s) : s[i] = c}
  IN IF hits = {} THEN <<s>>
     ELSE LET i == Min(hits)
          IN <<SubSeq(s, 1, i - 1)>> \o Split(SubSeq(s, i + 1, Len(s)), c)

\* String.prototype.split on the regular expression /[seps]+/
RECURSIVE SplitRuns(_, _)
SplitRuns(s, seps) ==
  LET hits == {i \in 1..Len(s) : s[i] \in seps}
  IN IF hits = {} THEN <<s>>
     ELSE LET i == Min(hits)
              rest == {j \in (i + 1)..Len(s) : s[j] \notin seps}
              j == IF rest = {} THEN Len(s) + 1 ELSE Min(rest)
          IN <<SubSeq(s, 1, i - 1)>> \o SplitRuns(SubSeq(s, j, Len(s)), seps)

\* Array.prototype.map(name => name.trim()).filter(name => name.length > 0)
RECURSIVE TrimAndDropEmpty(_)
TrimAndDropEmpty(parts) ==
  IF parts = <<>> THEN <<>>
  ELSE LET t == Trim(Head(parts))
       IN (IF Len(t) > 0 THEN <<t>> ELSE <<>>) \o TrimAndDropEmpty(Tail(parts))

AllDigits(s) == \A i \in 1..Len(s) : s[i] \in Digits

\* value of a digit string (parseInt(x, 10) on text matched by \d+)
RECURSIVE DigitsValue(_)
DigitsValue(s) ==
  IF s = <<>> THEN 0
  ELSE 10 * DigitsValue(SubSeq(s, 1, Len(s) - 1)) + DigitVal(s[Len(s)])

\* parseInt(text, 10): leading white space is skipped, the longest digit
\* prefix is converted, NaN when there is no digit prefix
NaN == [nan |-> TRUE, n |-> 0]
Num(n) == [nan |-> FALSE, n |-> n]
ParseInt(s) ==
  LET keep == {i \in 1..Len(s) : s[i] \notin WhiteSpace}
      t == IF keep = {} THEN <<>> ELSE SubSeq(s, Min(keep), Len(s))
      stop == {i \in 1..Len(t) : t[i] \notin Digits}
      pre == IF stop = {} THEN t ELSE SubSeq(t, 1, Min(stop) - 1)
  IN IF pre = <<>> THEN NaN ELSE Num(DigitsValue(pre))

\* the regular expression /^(\d{1,2})\/(\d{1,2})$/
NoMatch == [ok |-> FALSE, a |-> 0, b |-> 0]
MatchMD(s) ==
  LET p == Split(s, "/")
  IN IF /\ Len(p) = 2
        /\ Len(p[1]) \in 1..2 /\ AllDigits(p[1])
        /\ Len(p[2]) \in 1..2 /\ AllDigits(p[2])
     THEN [ok |-> TRUE, a |-> DigitsValue(p[1]), b |-> DigitsValue(p[2])]
     ELSE NoMatch

(***************************************************************************)
(* The Date object of the language runtime.  A valid Date is a local       *)
(* midnight, held as its day number (days since 1970-01-01); the local     *)
(* time zone has no daylight-saving transitions (Asia/Taipei).             *)
(***************************************************************************)
Null == [k |-> "null", day |-> 0]
InvalidDate == [k |-> "invalid", day |-> 0]
DateOf(n) == [k |-> "date", day |-> n]
IsDate(v) == v.k = "date"

\* days since 1970-01-01 of the civil date y-m-d, m in 1..12, any d
DaysFromCivil(y, m, d) ==
  LET yy == IF m <= 2 THEN y - 1 ELSE y
      era == yy \div 400
      yoe == yy - era * 400
      mp == IF m > 2 THEN m - 3 ELSE m + 9
      doy == (153 * mp + 2) \div 5 + d - 1
      doe == yoe * 365 + yoe \div 4 - yoe \div 100 + doy
  IN era * 146097 + doe - 719468

\* civil date of a day number
CivilFromDays(n) ==
  LET z == n + 719468
      era == z \div 146097
      doe == z - era * 146097
      yoe == (doe - doe \div 1460 + doe \div 36524 - doe \div 146096) \div 365
      doy == doe - (365 * yoe + yoe \div 4 - yoe \div 100)
      mp == (5 * doy + 2) \div 153
      d == doy - (153 * mp + 2) \div 5 + 1
      m == IF mp < 10 THEN mp + 3 ELSE mp - 9
      y == yoe + era * 400 + (IF m <= 2 THEN 1 ELSE 0)
  IN [y |-> y, m |-> m, d |-> d]

\* new Date(year, monthIndex, day): out-of-range fields roll over
NewDate(year, monthIndex, day) ==
  LET y == year + monthIndex \div 12
      m == (monthIndex % 12) + 1
  IN DateOf(DaysFromCivil(y, m, 1) + day - 1)

\* Date.prototype.getFullYear / getMonth (0..11) / getDate
GetFullYear(date) == CivilFromDays(date.day).y
GetMonthIndex(date) == CivilFromDays(date.day).m - 1
GetDate(date) == CivilFromDays(date.day).d

\* dateParser.js getMonth / getYear
getMonth(date) == IF ~IsDate(date) THEN 0 ELSE GetMonthIndex(date) + 1
getYear(date) == IF ~IsDate(date) THEN 0 ELSE GetFullYear(date)

defaultYear == 2025


(***************************************************************************)
(* The language runtime the build runs on.  Date parsing of text that is   *)
(* not in the standard format is implementation-defined: "strict" rejects  *)
(* it, "v8" applies the legacy M/D rules of that engine.                   *)
(***************************************************************************)
VARIABLE engine

Engines == {"strict", "v8"}

\* new Date(text) for text that reaches the last fallback of parseDate
NativeDateParse(text) ==
  LET p == Split(text, "/")
  IN IF /\ engine = "v8"
        /\ Len(p) = 2
        /\ Len(p[1]) >= 1 /\ AllDigits(p[1]) /\ Len(p[1]) <= 2
        /\ Len(p[2]) >= 1 /\ AllDigits(p[2]) /\ Len(p[2]) <= 2
        /\ DigitsValue(p[1]) \in 1..12
        /\ DigitsValue(p[2]) \in 1..31
     THEN NewDate(2001, DigitsValue(p[1]) - 1, DigitsValue(p[2]))
     ELSE InvalidDate

(***************************************************************************)
(* excelParser.js: parseDateRange                                          *)
(***************************************************************************)
Undefined == [undef |-> TRUE, n |-> 0]
Ret(n) == [undef |-> FALSE, n |-> n]

\* month (1..12) of a valid activity date, 0 for "defaultMonth = null"
DefaultMonthOf(activityDate) ==
  IF IsDate(activityDate) THEN GetMonthIndex(activityDate) + 1 ELSE 0

\* the two Date objects of a range and their day difference plus one
RangeIsReal(startMonth, startDay, endMonth, endDay) ==
  LET startDate == NewDate(defaultYear, startMonth - 1, startDay)
      endDate == NewDate(defaultYear, endMonth - 1, endDay)
  IN /\ GetMonthIndex(startDate) = startMonth - 1
     /\ GetDate(startDate) = startDay
     /\ GetMonthIndex(endDate) = endMonth - 1
     /\ GetDate(endDate) = endDay

\* a day difference that leaves out the start day
RangeDaysExclusive(startMonth, startDay, endMonth, endDay) ==
  NewDate(defaultYear, endMonth - 1, endDay).day
    - NewDate(defaultYear, startMonth - 1, startDay).day

RangeDays(startMonth, startDay, endMonth, endDay) ==
  LET startDate == NewDate(defaultYear, startMonth - 1, startDay)
      endDate == NewDate(defaultYear, endMonth - 1, endDay)
      diffDays == endDate.day - startDate.day
  IN diffDays + 1

parseDateRange(dateStr, activityDate) ==
  IF dateStr = <<>> THEN Ret(0)
  ELSE
  LET trimmed == Trim(dateStr)
      defaultMonth == DefaultMonthOf(activityDate)
  IN IF IncludesChar(trimmed, "-")
     THEN LET parts == Split(trimmed, "-")
          IN IF Len(parts) # 2 THEN Undefined
             ELSE
             LET startPart == Trim(parts[1])
                 endPart == Trim(parts[2])
                 startHasSlash == IncludesChar(startPart, "/")
                 endHasSlash == IncludesChar(endPart, "/")
                 startMatch == MatchMD(startPart)
                 endMatch == MatchMD(endPart)
                 startInt == ParseInt(startPart)
                 endInt == ParseInt(endPart)
                 startMonth == IF startHasSlash THEN startMatch.a ELSE defaultMonth
                 startDay == IF startHasSlash THEN startMatch.b ELSE startInt.n
                 endMonth == IF endHasSlash THEN endMatch.a
                             ELSE IF startHasSlash THEN startMonth
                             ELSE IF defaultMonth # 0 THEN defaultMonth ELSE startMonth
                 endDay == IF endHasSlash THEN endMatch.b ELSE endInt.n
             IN IF startHasSlash /\ ~startMatch.ok THEN Ret(0)
                ELSE IF ~startHasSlash /\ defaultMonth = 0 THEN Ret(0)
                ELSE IF ~startHasSlash /\ startInt.nan THEN Ret(0)
                ELSE IF endHasSlash /\ ~endMatch.ok THEN Ret(0)
                ELSE IF ~endHasSlash /\ endInt.nan THEN Ret(0)
                ELSE IF ~RangeIsReal(startMonth, startDay, endMonth, endDay) THEN Ret(0)
                ELSE Ret(RangeDays(startMonth, startDay, endMonth, endDay))
     ELSE LET singleMatch == MatchMD(trimmed)
              month == singleMatch.a
              day == singleMatch.b
              date == NewDate(defaultYear, month - 1, day)
          IN IF ~singleMatch.ok THEN Ret(0)
             ELSE IF month < 1 \/ month > 12 \/ day < 1 \/ day > 31 THEN Ret(0)
             ELSE IF GetMonthIndex(date) # month - 1 \/ GetDate(date) # day THEN Ret(0)
             ELSE Ret(1)

(***************************************************************************)
(* dataProcessor.js: parseNameWithDate                                     *)
(***************************************************************************)
OpenParens == {"(", FullLParen}
CloseParens == {")", FullRParen}

\* the regular expression /^(.+?)[（(](.+?)[）)]$/ : the lazy first group
\* ends before the first opening bracket that leaves a non-empty second group
BracketMatch(t) ==
  LET opens == {i \in 2..(Len(t) - 2) : t[i] \in OpenParens}
  IN IF /\ Len(t) >= 4
        /\ t[Len(t)] \in CloseParens
        /\ \A i \in 1..Len(t) : t[i] \notin {NL, CR}
        /\ opens # {}
     THEN [ok |-> TRUE, name |-> SubSeq(t, 1, Min(opens) - 1),
           date |-> SubSeq(t, Min(opens) + 1, Len(t) - 1)]
     ELSE [ok |-> FALSE, name |-> <<>>, date |-> <<>>]

\* result of parseNameWithDate; undef is the fall-through with no return
Parsed(name, days, error) ==
  [undef |-> FALSE, name |-> name, days |-> days, error |-> error]
ParsedUndefined == [undef |-> TRUE, name |-> <<>>, days |-> 0, error |-> FALSE]

parseNameWithDate(nameWithDate, activityDate) ==
  IF nameWithDate = <<>> THEN Parsed(<<>>, 0, TRUE)
  ELSE
  LET trimmed == Trim(nameWithDate)
      bracketMatch == BracketMatch(trimmed)
      name == Trim(bracketMatch.name)
      dateStr == Trim(bracketMatch.date)
      defaultMonth == DefaultMonthOf(activityDate)
  IN IF ~bracketMatch.ok THEN Parsed(trimmed, 0, FALSE)
     ELSE IF name = <<>> THEN Parsed(<<>>, 0, TRUE)
     ELSE IF IncludesChar(dateStr, "-")
     THEN LET parts == Split(dateStr, "-")
          IN IF Len(parts) # 2 THEN ParsedUndefined
             ELSE
             LET startPart == Trim(parts[1])
                 endPart == Trim(parts[2])
                 startHasSlash == IncludesChar(startPart, "/")
                 endHasSlash == IncludesChar(endPart, "/")
                 startMatch == MatchMD(startPart)
                 endMatch == MatchMD(endPart)
                 startInt == ParseInt(startPart)
                 endInt == ParseInt(endPart)
                 startMonth == IF startHasSlash THEN startMatch.a ELSE defaultMonth
                 startDay == IF startHasSlash THEN startMatch.b ELSE startInt.n
                 endMonth == IF endHasSlash THEN endMatch.a
                             ELSE IF startHasSlash THEN startMonth
                             ELSE IF defaultMonth # 0 THEN defaultMonth ELSE startMonth
                 endDay == IF endHasSlash THEN endMatch.b ELSE endInt.n
             IN IF startHasSlash /\ ~startMatch.ok THEN Parsed(name, 0, TRUE)
                ELSE IF ~startHasSlash /\ defaultMonth = 0 THEN Parsed(name, 0, TRUE)
                ELSE IF ~startHasSlash /\ (startInt.nan \/ startInt.n < 1 \/ startInt.n > 31)
                     THEN Parsed(name, 0, TRUE)
                ELSE IF endHasSlash /\ ~endMatch.ok THEN Parsed(name, 0, TRUE)
                ELSE IF ~endHasSlash /\ (endInt.nan \/ endInt.n < 1 \/ endInt.n > 31)
                     THEN Parsed(name, 0, TRUE)
                ELSE IF \/ startMonth < 1 \/ startMonth > 12 \/ startDay < 1 \/ startDay > 31
                        \/ endMonth < 1 \/ endMonth > 12 \/ endDay < 1 \/ endDay > 31
                     THEN Parsed(name, 0, TRUE)
                ELSE IF ~RangeIsReal(startMonth, startDay, endMonth, endDay)
                     THEN Parsed(name, 0, TRUE)
                ELSE IF RangeDays(startMonth, startDay, endMonth, endDay) < 1
                     THEN Parsed(name, 0, TRUE)
                ELSE Parsed(name, RangeDays(startMonth, startDay, endMonth, endDay), FALSE)
     ELSE LET singleMatch == MatchMD(dateStr)
              month == singleMatch.a
              day == singleMatch.b
              date == NewDate(defaultYear, month - 1, day)
          IN IF ~singleMatch.ok THEN Parsed(name, 0, TRUE)
             ELSE IF month < 1 \/ month > 12 \/ day < 1 \/ day > 31 THEN Parsed(name, 0, TRUE)
             ELSE IF GetMonthIndex(date) # month - 1 \/ GetDate(date) # day
                  THEN Parsed(name, 0, TRUE)
             ELSE Parsed(name, 1, FALSE)


(***************************************************************************)
(* dateParser.js: parseDate                                                *)
(***************************************************************************)
\* the characters U+5E74, U+6708, U+65E5 of the pattern YYYY<nian>M<yue>D<ri>
Nian == "nian"
Yue == "yue"
Ri == "ri"

\* a raw cell value: empty, a Date object, a number or text
EmptyCell == [kind |-> "empty", date |-> Null, n |-> 0, text |-> <<>>]
DateCell(d) == [kind |-> "date", date |-> d, n |-> 0, text |-> <<>>]
NumberCell(n) == [kind |-> "number", date |-> Null, n |-> n, text |-> <<>>]
TextCell(t) == [kind |-> "text", date |-> Null, n |-> 0, text |-> t]

\* String.prototype.replace(/\([^)]*\)/g, '') for one pair of brackets
RECURSIVE StripParens(_, _, _)
StripParens(s, open, close) ==
  LET os == {i \in 1..Len(s) : s[i] = open}
  IN IF os = {} THEN s
     ELSE LET i == Min(os)
              cs == {j \in (i + 1)..Len(s) : s[j] = close}
          IN IF cs = {} THEN s
             ELSE SubSeq(s, 1, i - 1)
                    \o StripParens(SubSeq(s, Min(cs) + 1, Len(s)), open, close)

YMD(y, m, d) == [ok |-> TRUE, y |-> y, m |-> m, d |-> d]
NoYMD == [ok |-> FALSE, y |-> 0, m |-> 0, d |-> 0]

\* /^(\d{4})<sep>(\d{1,2})<sep>(\d{1,2})$/
MatchYearFirst(s, sep) ==
  LET p == Split(s, sep)
  IN IF /\ Len(p) = 3
        /\ Len(p[1]) = 4 /\ AllDigits(p[1])
        /\ Len(p[2]) \in 1..2 /\ AllDigits(p[2])
        /\ Len(p[3]) \in 1..2 /\ AllDigits(p[3])
     THEN YMD(DigitsValue(p[1]), DigitsValue(p[2]), DigitsValue(p[3]))
     ELSE NoYMD

\* /^(\d{4})<nian>(\d{1,2})<yue>(\d{1,2})<ri>$/
MatchNianYueRi(s) ==
  LET p == Split(s, Nian)
      q == IF Len(p) = 2 THEN Split(p[2], Yue) ELSE <<>>
      r == IF Len(q) = 2 THEN Split(q[2], Ri) ELSE <<>>
  IN IF /\ Len(p) = 2 /\ Len(q) = 2 /\ Len(r) = 2
        /\ r[2] = <<>>
        /\ Len(p[1]) = 4 /\ AllDigits(p[1])
        /\ Len(q[1]) \in 1..2 /\ AllDigits(q[1])
        /\ Len(r[1]) \in 1..2 /\ AllDigits(r[1])
     THEN YMD(DigitsValue(p[1]), DigitsValue(q[1]), DigitsValue(r[1]))
     ELSE NoYMD

\* /^(\d{1,2})\/(\d{1,2})\/(\d{4})$/
MatchYearLast(s) ==
  LET p == Split(s, "/")
  IN IF /\ Len(p) = 3
        /\ Len(p[1]) \in 1..2 /\ AllDigits(p[1])
        /\ Len(p[2]) \in 1..2 /\ AllDigits(p[2])
        /\ Len(p[3]) = 4 /\ AllDigits(p[3])
     THEN YMD(DigitsValue(p[3]), DigitsValue(p[1]), DigitsValue(p[2]))
     ELSE NoYMD

\* the validation applied to a match of one of the absolute patterns
RealYMD(r) ==
  /\ r.ok
  /\ r.y >= 1900 /\ r.y <= 2100 /\ r.m >= 1 /\ r.m <= 12 /\ r.d >= 1 /\ r.d <= 31
  /\ LET date == NewDate(r.y, r.m - 1, r.d)
     IN GetFullYear(date) = r.y /\ GetMonthIndex(date) = r.m - 1 /\ GetDate(date) = r.d

\* the validation applied to M/D resolved in the default year
RealMD(month, day) ==
  /\ month >= 1 /\ month <= 12 /\ day >= 1 /\ day <= 31
  /\ LET date == NewDate(defaultYear, month - 1, day)
     IN /\ GetFullYear(date) = defaultYear
        /\ GetMonthIndex(date) = month - 1
        /\ GetDate(date) = day

\* the five absolute patterns, tried in order
patterns(s) ==
  << MatchYearFirst(s, "/"), MatchYearFirst(s, "-"), MatchNianYueRi(s),
     MatchYearLast(s), MatchYearFirst(s, ".") >>

\* serial day 0 of the spreadsheet epoch, new Date(1899, 11, 30)
excelEpoch == NewDate(1899, 11, 30)

parseDate(dateValue) ==
  IF dateValue.kind = "empty" THEN Null
  ELSE IF dateValue.kind = "date"
       THEN (IF IsDate(dateValue.date) THEN dateValue.date ELSE Null)
  ELSE IF dateValue.kind = "number"
       THEN (IF dateValue.n = 0 THEN Null ELSE DateOf(excelEpoch.day + dateValue.n))
  ELSE
  LET dateStr == Trim(StripParens(StripParens(Trim(dateValue.text), "(", ")"),
                                  FullLParen, FullRParen))
      parts == Split(dateStr, "-")
      startMatch == IF Len(parts) = 2 THEN MatchMD(Trim(parts[1])) ELSE NoMatch
      singleDateMatch == MatchMD(dateStr)
      pats == patterns(dateStr)
      hits == {i \in 1..Len(pats) : RealYMD(pats[i])}
      parsed == NativeDateParse(dateStr)
  IN IF Trim(dateValue.text) = <<>> THEN Null
     ELSE IF /\ IncludesChar(dateStr, "-") /\ Len(parts) = 2
             /\ startMatch.ok /\ RealMD(startMatch.a, startMatch.b)
          THEN NewDate(defaultYear, startMatch.a - 1, startMatch.b)
     ELSE IF singleDateMatch.ok /\ RealMD(singleDateMatch.a, singleDateMatch.b)
          THEN NewDate(defaultYear, singleDateMatch.a - 1, singleDateMatch.b)
     ELSE IF hits # {}
          THEN LET r == pats[Min(hits)] IN NewDate(r.y, r.m - 1, r.d)
     ELSE IF IsDate(parsed) THEN parsed
     ELSE Null

formatMonth(year, month) == <<year, month>>


(***************************************************************************)
(* excelParser.js: parseParticipants                                       *)
(***************************************************************************)
ColonsAsciiOnly == {":"}
Colons == {":", FullColon}
nameSeparators == {IdeoComma, FullComma, ","}

\* str.replace(/\r\n/g, '\n').replace(/\r/g, '\n')
RECURSIVE NormalizeNewlines(_)
NormalizeNewlines(s) ==
  IF s = <<>> THEN <<>>
  ELSE IF Len(s) >= 2 /\ s[1] = CR /\ s[2] = NL
       THEN <<NL>> \o NormalizeNewlines(SubSeq(s, 3, Len(s)))
  ELSE IF s[1] = CR THEN <<NL>> \o NormalizeNewlines(Tail(s))
  ELSE <<s[1]>> \o NormalizeNewlines(Tail(s))

\* \d{1,2}
IsDay12(s) == Len(s) \in 1..2 /\ AllDigits(s)

\* \d{1,2}\/\d{1,2}(?:-\d{1,2}(?:\/\d{1,2})?)?
IsDatePrefix(s) ==
  LET p == Split(s, "-")
  IN \/ Len(p) = 1 /\ MatchMD(p[1]).ok
     \/ Len(p) = 2 /\ MatchMD(p[1]).ok /\ (IsDay12(p[2]) \/ MatchMD(p[2]).ok)

\* /^(\d{1,2}\/\d{1,2}(?:-\d{1,2}(?:\/\d{1,2})?)?)[：:]\s*(.+)$/ on a trimmed line
datePrefixMatch(line) ==
  LET cs == {i \in 1..Len(line) : line[i] \in Colons}
      i == IF cs = {} THEN 0 ELSE Min(cs)
      rest == SubSeq(line, i + 1, Len(line))
      keep == {j \in 1..Len(rest) : rest[j] \notin WhiteSpace}
  IN IF cs # {} /\ IsDatePrefix(SubSeq(line, 1, i - 1)) /\ Len(rest) >= 1
     THEN [ok |-> TRUE, dateStr |-> SubSeq(line, 1, i - 1),
           namesStr |-> IF keep = {} THEN SubSeq(rest, Len(rest), Len(rest))
                        ELSE SubSeq(rest, Min(keep), Len(rest))]
     ELSE [ok |-> FALSE, dateStr |-> <<>>, namesStr |-> <<>>]

Participant(name, days) == [name |-> name, days |-> days]

RECURSIVE WithDays(_, _)
WithDays(names, days) ==
  IF names = <<>> THEN <<>>
  ELSE <<Participant(Head(names), days)>> \o WithDays(Tail(names), days)

\* the body of lines.forEach for one line
ParticipantsOfLine(rawLine, activityDate) ==
  LET line == Trim(rawLine)
      m == datePrefixMatch(line)
  IN IF line = <<>> THEN <<>>
     ELSE IF m.ok
          THEN WithDays(TrimAndDropEmpty(SplitRuns(m.namesStr, nameSeparators)),
                        parseDateRange(m.dateStr, activityDate).n)
     ELSE WithDays(TrimAndDropEmpty(SplitRuns(line, nameSeparators)), 0)

RECURSIVE ParticipantsOfLines(_, _)
ParticipantsOfLines(lines, activityDate) ==
  IF lines = <<>> THEN <<>>
  ELSE ParticipantsOfLine(Head(lines), activityDate)
         \o ParticipantsOfLines(Tail(lines), activityDate)

parseParticipants(value, activityDate) ==
  IF value = <<>> THEN <<>>
  ELSE LET str == Trim(value)
       IN IF str = <<>> THEN <<>>
          ELSE ParticipantsOfLines(Split(NormalizeNewlines(str), NL), activityDate)


(***************************************************************************)
(* excelParser.js: parseExcelFile                                          *)
(***************************************************************************)
\* a numeric cell: null, a number, text that parseFloat converts, other text
NullNum == [kind |-> "null", n |-> 0]
NumberNum(n) == [kind |-> "number", n |-> n]
TextNum(n) == [kind |-> "numtext", n |-> n]
TextNaN == [kind |-> "nan", n |-> 0]

\* let x = 0; if (v !== null && v !== undefined) { const n = typeof v ===
\* 'number' ? v : parseFloat(v); if (!isNaN(n) && n > 0) x = n; }
CoerceCount(v) ==
  IF v.kind = "null" THEN 0
  ELSE IF v.kind = "nan" THEN 0
  ELSE IF v.n > 0 THEN v.n
  ELSE 0

\* RowRecordOn without the early return on a null date
RowRecordKeepNull(row, rowNumber, date) ==
  [skip |-> FALSE,
   rec |-> [date |-> date,
            activityName |-> Trim(row.activityName),
            status |-> Trim(row.status),
            days |-> CoerceCount(row.daysValue),
            activityType |-> Trim(row.activityType),
            city |-> Trim(row.city),
            volunteerCount |-> CoerceCount(row.volunteerCountValue),
            hours |-> CoerceCount(row.hoursValue),
            participants |-> <<>>,
            rowNumber |-> rowNumber]]

\* the record built from one sheet row; skip is the early return on a null date
RowRecordOn(row, rowNumber, date) ==
  [skip |-> ~IsDate(date),
   rec |-> [date |-> date,
            activityName |-> Trim(row.activityName),
            status |-> Trim(row.status),
            days |-> CoerceCount(row.daysValue),
            activityType |-> Trim(row.activityType),
            city |-> Trim(row.city),
            volunteerCount |-> CoerceCount(row.volunteerCountValue),
            hours |-> CoerceCount(row.hoursValue),
            participants |-> parseParticipants(row.participantsValue, date),
            rowNumber |-> rowNumber]]

RowRecord(row, rowNumber) == RowRecordOn(row, rowNumber, parseDate(row.dateValue))

\* sheet.eachRow from row 2 on: rows[i] is sheet row i + 1
\* data.push(record), unless the row was skipped
PushRow(data, r) == IF r.skip THEN data ELSE Append(data, r.rec)

RECURSIVE EachRow(_, _)
EachRow(rows, n) ==
  IF n = 0 THEN <<>>
  ELSE PushRow(EachRow(rows, n - 1), RowRecord(rows[n], n + 1))

NoSheetMessage == "no sheet named 2025"
ReadErrorMessage == "workbook cannot be read"

\* a file: its bytes load or not, it has the sheet "2025" or not, its rows
Resolved(data) == [threw |-> FALSE, message |-> "", data |-> data]
Rejected(message) == [threw |-> TRUE, message |-> message, data |-> <<>>]

parseExcelFile(file) ==
  IF ~file.readable THEN Rejected(ReadErrorMessage)
  ELSE IF ~file.sheet THEN Rejected(NoSheetMessage)
  ELSE Resolved(EachRow(file.rows, Len(file.rows)))

(***************************************************************************)
(* hourLogParser.js: parseHourLogFile                                      *)
(***************************************************************************)
\* !value for a date cell and for a numeric cell
FalsyDateCell(v) == v.kind = "empty" \/ (v.kind = "number" /\ v.n = 0)
FalsyNumCell(v) == v.kind = "null" \/ (v.kind = "number" /\ v.n = 0)

\* dateStr.match(/^(\d{4})/) and year !== 2025 on a text date
OtherYearPrefix(text) ==
  LET dateStr == Trim(text)
  IN /\ Len(dateStr) >= 4
     /\ AllDigits(SubSeq(dateStr, 1, 4))
     /\ DigitsValue(SubSeq(dateStr, 1, 4)) # 2025

\* the early returns that come before parseDate: the empty row, the text
\* with the prefix of another year, the Date object of another year
SkippedBeforeParse(row) ==
  \/ /\ row.nameValue = <<>> /\ FalsyDateCell(row.dateValue)
     /\ row.contentValue = <<>> /\ FalsyNumCell(row.hoursValue)
  \/ row.dateValue.kind = "text" /\ OtherYearPrefix(row.dateValue.text)
  \/ /\ row.dateValue.kind = "date" /\ IsDate(row.dateValue.date)
     /\ GetFullYear(row.dateValue.date) # 2025

\* HourLogRecordOn without the test of the name
HourLogRecordAnyName(row, rowNumber, date) ==
  [skip |-> \/ SkippedBeforeParse(row)
            \/ ~IsDate(date)
            \/ getYear(date) # 2025
            \/ ~(CoerceCount(row.hoursValue) > 0),
   rec |-> [name |-> Trim(row.nameValue), date |-> date, content |-> Trim(row.contentValue),
            hours |-> CoerceCount(row.hoursValue), rowNumber |-> rowNumber]]

\* the record built from one sheet row, date being the result of parseDate;
\* skip gathers the early returns and the final test of name and hours
HourLogRecordOn(row, rowNumber, date) ==
  [skip |-> \/ SkippedBeforeParse(row)
            \/ ~IsDate(date)
            \/ getYear(date) # 2025
            \/ ~(Trim(row.nameValue) # <<>> /\ CoerceCount(row.hoursValue) > 0),
   rec |-> [name |-> Trim(row.nameValue), date |-> date, content |-> Trim(row.contentValue),
            hours |-> CoerceCount(row.hoursValue), rowNumber |-> rowNumber]]

HourLogRecord(row, rowNumber) == HourLogRecordOn(row, rowNumber, parseDate(row.dateValue))

RECURSIVE EachHourLogRow(_, _)
EachHourLogRow(rows, n) ==
  IF n = 0 THEN <<>>
  ELSE PushRow(EachHourLogRow(rows, n - 1), HourLogRecord(rows[n], n + 1))

NoFormSheetMessage == "no sheet of form responses"

parseHourLogFile(file) ==
  IF ~file.readable THEN Rejected(ReadErrorMessage)
  ELSE IF ~file.sheet THEN Rejected(NoFormSheetMessage)
  ELSE Resolved(EachHourLogRow(file.rows, Len(file.rows)))

(***************************************************************************)
(* dataProcessor.js: filterCancelled                                       *)
(***************************************************************************)
\* the characters U+53D6 U+6D88 of the cancelled marker
Qu == "qu"
Xiao == "xiao"
CancelMark == <<Qu, Xiao>>

\* String.prototype.toLowerCase on the characters of the model
ToLowerCase(s) ==
  [i \in 1..Len(s) |-> IF s[i] = "A" THEN "a" ELSE IF s[i] = "B" THEN "b" ELSE s[i]]

\* IsCancelled as a comparison with the whole status instead of a search in it
IsCancelledExact(record) == ToLowerCase(record.status) = CancelMark

IsCancelled(record) == Includes(ToLowerCase(record.status), CancelMark)

filterCancelled(data) == SelectSeq(data, LAMBDA record : ~IsCancelled(record))


(***************************************************************************)
(* Objects used as accumulators, and Array.prototype.sort                  *)
(***************************************************************************)
EmptyObject == [x \in {} |-> 0]

\* obj[key] = value
SetKey(obj, key, value) ==
  [k \in (DOMAIN obj) \cup {key} |-> IF k = key THEN value ELSE obj[k]]

\* obj[key] || 0
GetOrZero(obj, key) == IF key \in DOMAIN obj THEN obj[key] ELSE 0

RECURSIVE SumOver(_, _)
SumOver(f, S) ==
  IF S = {} THEN 0
  ELSE LET x == CHOOSE x \in S : TRUE IN f[x] + SumOver(f, S \ {x})

\* Object.values(cols).reduce((sum, v) => sum + v, 0)
SumValues(cols) == SumOver(cols, DOMAIN cols)

\* Array.prototype.sort is stable: an element goes after the elements whose
\* key is not greater.  pairs are [k |-> sort key, v |-> element]
InsertByKey(sorted, e) ==
  LET pos == Cardinality({i \in 1..Len(sorted) : sorted[i].k <= e.k})
  IN SubSeq(sorted, 1, pos) \o <<e>> \o SubSeq(sorted, pos + 1, Len(sorted))

RECURSIVE SortPairs(_)
SortPairs(pairs) ==
  IF pairs = <<>> THEN <<>>
  ELSE InsertByKey(SortPairs(SubSeq(pairs, 1, Len(pairs) - 1)), pairs[Len(pairs)])

Values(pairs) == [i \in 1..Len(pairs) |-> pairs[i].v]

(***************************************************************************)
(* dataProcessor.js: month x category matrices                             *)
(***************************************************************************)
\* the label U+672A U+5206 U+985E of the unclassified bucket
Unclassified == <<"wei", "fen", "lei">>

\* x || Unclassified for a label
OrUnclassified(label) == IF label = <<>> THEN Unclassified ELSE label

\* cityRegions, in the model's characters
North == <<"bei", "bu">>
Central == <<"zhong", "bu">>
South == <<"nan", "bu">>
East == <<"dong", "bu">>
Taipei == <<"tai", "bei", "shi">>
Taichung == <<"tai", "zhong", "shi">>
Kaohsiung == <<"gao", "xiong", "shi">>
Hualien == <<"hua", "lian", "xian">>
NewTaipei == <<"xin", "bei", "shi">>
\* two counties that are in none of the tables: U+91D1 U+9580 U+7E23 and
\* U+9023 U+6C5F U+7E23
Kinmen == <<"jin", "men", "xian">>
Lienchiang == <<"lian", "jiang", "xian">>

cityRegions ==
  (Taipei :> North) @@ (NewTaipei :> North) @@ (Taichung :> Central)
    @@ (Kaohsiung :> South) @@ (Hualien :> East)

getRegion(city) == IF city \in DOMAIN cityRegions THEN cityRegions[city] ELSE Unclassified

\* the forEach of a month x category function over entries
\* [year, month, cat, amount]: stats is keyed by <<year, month>>, order is the
\* insertion order of the keys
RECURSIVE MonthlyFold(_)
MonthlyFold(entries) ==
  IF entries = <<>> THEN [order |-> <<>>, stats |-> EmptyObject]
  ELSE LET prev == MonthlyFold(SubSeq(entries, 1, Len(entries) - 1))
           e == entries[Len(entries)]
           key == <<e.year, e.month>>
           isNew == key \notin DOMAIN prev.stats
           cols == IF isNew THEN EmptyObject ELSE prev.stats[key]
       IN [order |-> IF isNew THEN Append(prev.order, key) ELSE prev.order,
           stats |-> SetKey(prev.stats, key,
                            SetKey(cols, e.cat, GetOrZero(cols, e.cat) + e.amount))]

\* Object.values(stats).sort((a, b) => a.year - b.year || a.monthNum - b.monthNum)
MonthlyRows(entries) ==
  LET f == MonthlyFold(entries)
      pairs == [i \in 1..Len(f.order) |->
                  [k |-> f.order[i][1] * 100 + f.order[i][2],
                   v |-> [month |-> formatMonth(f.order[i][1], f.order[i][2]),
                          year |-> f.order[i][1],
                          monthNum |-> f.order[i][2],
                          cols |-> f.stats[f.order[i]]]]]
  IN Values(SortPairs(pairs))

\* MonthEntry adding nothing for a record nobody attended
MonthEntryAttendedOnly(record, cat, amount) ==
  [year |-> getYear(record.date), month |-> getMonth(record.date),
   cat |-> cat, amount |-> IF record.participants = <<>> THEN 0 ELSE amount]

MonthEntry(record, cat, amount) ==
  [year |-> getYear(record.date), month |-> getMonth(record.date),
   cat |-> cat, amount |-> amount]

calculateMonthlyActivityTypeCount(data) ==
  MonthlyRows([i \in 1..Len(data) |->
                 MonthEntry(data[i], OrUnclassified(data[i].activityType), 1)])

calculateMonthlyActivityTypeDays(data) ==
  MonthlyRows([i \in 1..Len(data) |->
                 MonthEntry(data[i], OrUnclassified(data[i].activityType), data[i].days)])

calculateMonthlyCityCount(data) ==
  MonthlyRows([i \in 1..Len(data) |->
                 MonthEntry(data[i], OrUnclassified(data[i].city), 1)])

calculateMonthlyCityDays(data) ==
  MonthlyRows([i \in 1..Len(data) |->
                 MonthEntry(data[i], OrUnclassified(data[i].city), data[i].days)])

calculateMonthlyRegionCount(data) ==
  MonthlyRows([i \in 1..Len(data) |->
                 MonthEntry(data[i], getRegion(OrUnclassified(data[i].city)), 1)])

calculateMonthlyRegionDays(data) ==
  MonthlyRows([i \in 1..Len(data) |->
                 MonthEntry(data[i], getRegion(OrUnclassified(data[i].city)), data[i].days)])

(***************************************************************************)
(* dataProcessor.js: category totals                                       *)
(***************************************************************************)
\* the forEach of a total function over entries [cat, amount]: stats is keyed
\* by the category, order is the insertion order of the keys
RECURSIVE TotalsFold(_)
TotalsFold(entries) ==
  IF entries = <<>> THEN [order |-> <<>>, stats |-> EmptyObject]
  ELSE LET prev == TotalsFold(SubSeq(entries, 1, Len(entries) - 1))
           e == entries[Len(entries)]
       IN [order |-> IF e.cat \in DOMAIN prev.stats THEN prev.order
                     ELSE Append(prev.order, e.cat),
           stats |-> SetKey(prev.stats, e.cat, GetOrZero(prev.stats, e.cat) + e.amount)]

\* the i-th of Object.entries(stats).map(([name, value]) => ({ name, value })),
\* with the key k the comparator of the function orders it by
TotalPair(f, i, k) == [k |-> k, v |-> [name |-> f.order[i], value |-> f.stats[f.order[i]]]]

\* .sort(comparator), pairs being the entries with their keys
TotalRows(pairs) == Values(SortPairs(pairs))

\* TotalEntry of a days total that counts the records instead
TotalEntryCounting(cat, amount) == [cat |-> cat, amount |-> 1]

TotalEntry(cat, amount) == [cat |-> cat, amount |-> amount]

\* (a, b) => b.value - a.value
ByValueDescending(f) == [i \in 1..Len(f.order) |-> TotalPair(f, i, 0 - f.stats[f.order[i]])]

calculateActivityTypeTotalCount(data) ==
  TotalRows(ByValueDescending(TotalsFold(
    [i \in 1..Len(data) |-> TotalEntry(OrUnclassified(data[i].activityType), 1)])))

calculateActivityTypeTotalDays(data) ==
  TotalRows(ByValueDescending(TotalsFold(
    [i \in 1..Len(data) |-> TotalEntry(OrUnclassified(data[i].activityType), data[i].days)])))

\* cityRegionsForSort[name] || 99
cityRegionsForSort(name) ==
  IF name \in {Taipei, NewTaipei} THEN 1
  ELSE IF name = Taichung THEN 2
  ELSE IF name = Kaohsiung THEN 3
  ELSE IF name = Hualien THEN 4
  ELSE 99

\* cityOrderForSort[name] || 999
cityOrderForSort(name) ==
  IF name \in {Taipei, Taichung, Kaohsiung, Hualien} THEN 1
  ELSE IF name = NewTaipei THEN 2
  ELSE 999

\* a.name.localeCompare(b.name, 'zh-TW') as a rank: an engine with the
\* locale's collation data puts U+91D1 before U+9023, one without compares
\* the code units and puts U+9023 first
localeCompareRank(name) ==
  IF name = Kinmen THEN (IF engine = "v8" THEN 1 ELSE 2)
  ELSE IF name = Lienchiang THEN (IF engine = "v8" THEN 2 ELSE 1)
  ELSE 0

\* geographyKey without the three lines that put the unclassified label last:
\* the label is compared as a city of no region
geographyKeyUnclassifiedAsCity(name) ==
  cityRegionsForSort(name) * 100000 + cityOrderForSort(name) * 100
    + localeCompareRank(name)

\* the comparator of the city totals: the unclassified label last, then the
\* region, then the order inside the region, then the collation
geographyKey(name) ==
  IF name = Unclassified THEN 10000000
  ELSE cityRegionsForSort(name) * 100000 + cityOrderForSort(name) * 100
         + localeCompareRank(name)

ByGeography(f) == [i \in 1..Len(f.order) |-> TotalPair(f, i, geographyKey(f.order[i]))]

calculateCityTotalCount(data) ==
  TotalRows(ByGeography(TotalsFold(
    [i \in 1..Len(data) |-> TotalEntry(OrUnclassified(data[i].city), 1)])))

calculateCityTotalDays(data) ==
  TotalRows(ByGeography(TotalsFold(
    [i \in 1..Len(data) |-> TotalEntry(OrUnclassified(data[i].city), data[i].days)])))

\* order[name] || 99
regionOrder(name) ==
  IF name = North THEN 1
  ELSE IF name = Central THEN 2
  ELSE IF name = South THEN 3
  ELSE IF name = East THEN 4
  ELSE IF name = Unclassified THEN 5
  ELSE 99

\* (a, b) => (order[a.name] || 99) - (order[b.name] || 99)
ByRegion(f) == [i \in 1..Len(f.order) |-> TotalPair(f, i, regionOrder(f.order[i]))]

calculateRegionTotalCount(data) ==
  TotalRows(ByRegion(TotalsFold(
    [i \in 1..Len(data) |-> TotalEntry(getRegion(OrUnclassified(data[i].city)), 1)])))

calculateRegionTotalDays(data) ==
  TotalRows(ByRegion(TotalsFold(
    [i \in 1..Len(data) |-> TotalEntry(getRegion(OrUnclassified(data[i].city)), data[i].days)])))


(***************************************************************************)
(* nameAliases.js                                                          *)
(***************************************************************************)
\* the alias table nameAliases.json: its entries [key, value] in file order
VARIABLE aliasMap

getAliasMap == aliasMap

\* map[name]: the value of the entry with that key, <<>> when absent
Lookup(map, name) ==
  LET hits == {i \in 1..Len(map) : map[i].key = name}
  IN IF hits = {} THEN <<>> ELSE map[Max(hits)].value

\* x || y on strings
Or(x, y) == IF x # <<>> THEN x ELSE y

\* normalizeName looking the name up among the values and giving the key
normalizeNameByValue(name) ==
  LET hits == {i \in 1..Len(getAliasMap) : getAliasMap[i].value = name}
  IN IF hits = {} THEN name ELSE getAliasMap[Min(hits)].key

normalizeName(name) ==
  IF name = <<>> THEN name
  ELSE Or(Lookup(getAliasMap, name), name)

getLastNameTwoChars(name) ==
  LET trimmed == Trim(name)
  IN IF name = <<>> THEN <<>>
     ELSE IF Len(trimmed) = 0 THEN <<>>
     ELSE IF Len(trimmed) <= 2 THEN trimmed
     ELSE SubSeq(trimmed, Len(trimmed) - 1, Len(trimmed))

\* findNameByLastTwoChars going on to the last entry whose value ends with
\* lastTwoChars
findNameLastEntry(lastTwoChars) ==
  LET map == getAliasMap
      hits == {i \in 1..Len(map) : getLastNameTwoChars(map[i].value) = lastTwoChars}
  IN IF lastTwoChars = <<>> THEN <<>>
     ELSE IF hits = {} THEN <<>>
     ELSE map[Max(hits)].value

\* the for loop over Object.entries(map): the first entry whose value ends
\* with lastTwoChars; <<>> stands for null
findNameByLastTwoChars(lastTwoChars) ==
  LET map == getAliasMap
      hits == {i \in 1..Len(map) : getLastNameTwoChars(map[i].value) = lastTwoChars}
  IN IF lastTwoChars = <<>> THEN <<>>
     ELSE IF hits = {} THEN <<>>
     ELSE map[Min(hits)].value

(***************************************************************************)
(* dataProcessor.js: person x activity type matrices                       *)
(***************************************************************************)
HoursPerDay == 8

\* Contribution with the parenthetical's days taken before the prefix's
SuffixFirstOn(record, participant, parsed) ==
  [undef |-> parsed.undef,
   skip |-> parsed.name = <<>>,
   name |-> normalizeName(parsed.name),
   type |-> OrUnclassified(record.activityType),
   count |-> 1,
   hours |-> IF parsed.days > 0 THEN parsed.days * HoursPerDay
             ELSE IF participant.days > 0 THEN participant.days * HoursPerDay
             ELSE record.hours]

ContributionSuffixFirst(record, participant) ==
  SuffixFirstOn(record, participant, parseNameWithDate(participant.name, record.date))

\* ContributionOn taking every day count that is not 0, negative ones too
ContributionOfAnyDays(record, daysFromPrefix, parsed) ==
  [undef |-> parsed.undef,
   skip |-> parsed.name = <<>>,
   name |-> normalizeName(parsed.name),
   type |-> OrUnclassified(record.activityType),
   count |-> 1,
   hours |-> IF daysFromPrefix # 0 THEN daysFromPrefix * HoursPerDay
             ELSE IF parsed.days # 0 THEN parsed.days * HoursPerDay
             ELSE record.hours]

\* what one participant of one record adds, parsed being the result of
\* parseNameWithDate; undef marks the participant on which "parsed.error" is
\* read from undefined and a TypeError is thrown
ContributionOn(record, daysFromPrefix, parsed) ==
  [undef |-> parsed.undef,
   skip |-> parsed.name = <<>>,
   name |-> normalizeName(parsed.name),
   type |-> OrUnclassified(record.activityType),
   count |-> 1,
   hours |-> IF daysFromPrefix > 0 THEN daysFromPrefix * HoursPerDay
             ELSE IF parsed.days > 0 THEN parsed.days * HoursPerDay
             ELSE record.hours]

Contribution(record, participant) ==
  ContributionOn(record, participant.days,
                 parseNameWithDate(participant.name, record.date))

\* data.forEach(record => record.participants.forEach(...)) in order
ContributionsOf(record) ==
  [j \in 1..Len(record.participants) |-> Contribution(record, record.participants[j])]

RECURSIVE Contributions(_)
Contributions(data) ==
  IF data = <<>> THEN <<>>
  ELSE Contributions(SubSeq(data, 1, Len(data) - 1)) \o ContributionsOf(data[Len(data)])

\* activityTypesSet
ActivityTypesOf(data) == {OrUnclassified(data[i].activityType) : i \in 1..Len(data)}

\* PersonFold writing the participant's amount over the cell instead of
\* adding it
RECURSIVE PersonFoldOverwrite(_, _, _)
PersonFoldOverwrite(contribs, types, field) ==
  IF contribs = <<>> THEN [order |-> <<>>, stats |-> EmptyObject]
  ELSE LET prev == PersonFoldOverwrite(SubSeq(contribs, 1, Len(contribs) - 1), types, field)
           c == contribs[Len(contribs)]
           isNew == c.name \notin DOMAIN prev.stats
           cols == IF isNew THEN [t \in types |-> 0] ELSE prev.stats[c.name]
       IN IF c.skip THEN prev
          ELSE [order |-> IF isNew THEN Append(prev.order, c.name) ELSE prev.order,
                stats |-> SetKey(prev.stats, c.name, SetKey(cols, c.type, c[field]))]

\* the accumulation into stats[normalizedName][activityType]; field is
\* "count" or "hours"
RECURSIVE PersonFold(_, _, _)
PersonFold(contribs, types, field) ==
  IF contribs = <<>> THEN [order |-> <<>>, stats |-> EmptyObject]
  ELSE LET prev == PersonFold(SubSeq(contribs, 1, Len(contribs) - 1), types, field)
           c == contribs[Len(contribs)]
           isNew == c.name \notin DOMAIN prev.stats
           cols == IF isNew THEN [t \in types |-> 0] ELSE prev.stats[c.name]
       IN IF c.skip THEN prev
          ELSE [order |-> IF isNew THEN Append(prev.order, c.name) ELSE prev.order,
                stats |-> SetKey(prev.stats, c.name,
                                 SetKey(cols, c.type, GetOrZero(cols, c.type) + c[field]))]

\* PersonRows without the sort: the rows in the order of Object.entries(stats)
PersonRowsUnsorted(f) ==
  [i \in 1..Len(f.order) |-> [name |-> f.order[i], cols |-> f.stats[f.order[i]]]]

\* Object.entries(stats).map(total).sort((a, b) => b.total - a.total), total removed
PersonRows(f) ==
  Values(SortPairs([i \in 1..Len(f.order) |->
                      [k |-> 0 - SumValues(f.stats[f.order[i]]),
                       v |-> [name |-> f.order[i], cols |-> f.stats[f.order[i]]]]]))

Returned(rows) == [threw |-> FALSE, rows |-> rows]
Thrown == [threw |-> TRUE, rows |-> <<>>]

PersonMatrixOn(contribs, types, field) ==
  IF \E i \in 1..Len(contribs) : contribs[i].undef THEN Thrown
  ELSE Returned(PersonRows(PersonFold(contribs, types, field)))

PersonMatrix(data, field) ==
  PersonMatrixOn(Contributions(data), ActivityTypesOf(data), field)

calculateParticipantCount(data) == PersonMatrix(data, "count")

calculateParticipantHours(data) == PersonMatrix(data, "hours")


(***************************************************************************)
(* hourLogProcessor.js                                                     *)
(***************************************************************************)
\* reportType.js, the ordered content-type vocabulary: U+6B65 U+9053 U+5BE6
\* U+4F5C U+5E36 U+9818 (trail work leading), U+56DE U+6D41 U+8A13 U+7DF4
\* (retraining), U+5E36 U+9818 (leading)
TrailLeading == <<"bu", "dao", "shi", "zuo", "dai", "ling">>
Retraining == <<"hui", "liu", "xun", "lian">>
Leading == <<"dai", "ling">>
reportType == <<TrailLeading, Retraining, Leading>>

\* matchReportType going on to the last keyword of the vocabulary that the
\* content includes
matchReportTypeLast(content) ==
  LET hits == {i \in 1..Len(reportType) : Includes(content, reportType[i])}
  IN IF content = <<>> THEN <<>>
     ELSE IF hits = {} THEN <<>>
     ELSE reportType[Max(hits)]

\* <<>> stands for null
matchReportType(content) ==
  LET hits == {i \in 1..Len(reportType) : Includes(content, reportType[i])}
  IN IF content = <<>> THEN <<>>
     ELSE IF hits = {} THEN <<>>
     ELSE reportType[Min(hits)]

\* standardName || originalName
StandardNameOrRaw(standardName, lastTwoChars, originalName) ==
  Or(standardName, originalName)

\* standardName || lastTwoChars || originalName
StandardNameOr(standardName, lastTwoChars, originalName) ==
  Or(Or(standardName, lastTwoChars), originalName)

\* the row pushed and the entries pushed to the errors list, given the
\* results of the two look-ups
ProcessedRowOn(record, lastTwoChars, standardName, matchedType) ==
  [skip |-> record.name = <<>>,
   errors |-> (IF standardName = <<>> THEN <<[kind |-> "name", row |-> record.rowNumber]>>
               ELSE <<>>)
              \o (IF matchedType = <<>>
                  THEN <<[kind |-> "content", row |-> record.rowNumber]>>
                  ELSE <<>>),
   row |-> [name |-> record.name, date |-> record.date, content |-> record.content,
            hours |-> record.hours, rowNumber |-> record.rowNumber,
            standardName |-> StandardNameOr(standardName, lastTwoChars, record.name),
            matchedContentType |-> Or(matchedType, Unclassified)]]

\* the body of data.forEach for one record
ProcessedRow(record) ==
  ProcessedRowOn(record, getLastNameTwoChars(record.name),
                 findNameByLastTwoChars(getLastNameTwoChars(record.name)),
                 matchReportType(record.content))

\* processed is the returned array, errors the local diagnostics list
PushProcessed(prev, r) ==
  IF r.skip THEN prev
  ELSE [processed |-> Append(prev.processed, r.row), errors |-> prev.errors \o r.errors]

RECURSIVE processHourLogData(_)
processHourLogData(data) ==
  IF data = <<>> THEN [processed |-> <<>>, errors |-> <<>>]
  ELSE PushProcessed(processHourLogData(SubSeq(data, 1, Len(data) - 1)),
                     ProcessedRow(data[Len(data)]))

\* options: years is a list (<<>> when absent or empty); year, startYear and
\* endYear are numbers when the matching has* flag is set
Options(years, hasYear, year, hasStart, startYear, hasEnd, endYear) ==
  [years |-> years, hasYear |-> hasYear, year |-> year,
   hasStart |-> hasStart, startYear |-> startYear,
   hasEnd |-> hasEnd, endYear |-> endYear]

\* PassesYearFilter asking for the year range before the list of years
PassesYearFilterRangeFirst(record, options) ==
  LET recordYear == IF IsDate(record.date) THEN getYear(record.date) ELSE 0
      yearsSet == {options.years[i] : i \in 1..Len(options.years)}
  IN IF options.hasStart /\ options.hasEnd
     THEN recordYear >= options.startYear /\ recordYear <= options.endYear
     ELSE IF Len(options.years) > 0 THEN recordYear \in yearsSet
     ELSE IF options.hasYear THEN recordYear = options.year
     ELSE TRUE

\* the three early returns of the year filter
PassesYearFilter(record, options) ==
  LET recordYear == IF IsDate(record.date) THEN getYear(record.date) ELSE 0
      yearsSet == {options.years[i] : i \in 1..Len(options.years)}
      hasYearsSet == Len(options.years) > 0
      useYearRange == options.hasStart /\ options.hasEnd
      useSingleYear == options.hasYear
  IN /\ ~(hasYearsSet /\ recordYear \notin yearsSet)
     /\ ~(~hasYearsSet /\ useYearRange
            /\ (recordYear < options.startYear \/ recordYear > options.endYear))
     /\ ~(~hasYearsSet /\ ~useYearRange /\ useSingleYear /\ recordYear # options.year)

Counted(record, options) ==
  /\ PassesYearFilter(record, options)
  /\ record.standardName # <<>>
  /\ record.hours > 0

\* stats[name][content] += hours over the counted records
RECURSIVE ContentFold(_, _)
ContentFold(processedData, options) ==
  IF processedData = <<>> THEN [order |-> <<>>, stats |-> EmptyObject]
  ELSE LET prev == ContentFold(SubSeq(processedData, 1, Len(processedData) - 1), options)
           record == processedData[Len(processedData)]
           name == record.standardName
           content == OrUnclassified(record.matchedContentType)
           isNew == name \notin DOMAIN prev.stats
           contents == IF isNew THEN EmptyObject ELSE prev.stats[name]
       IN IF ~Counted(record, options) THEN prev
          ELSE [order |-> IF isNew THEN Append(prev.order, name) ELSE prev.order,
                stats |-> SetKey(prev.stats, name,
                                 SetKey(contents, content,
                                        GetOrZero(contents, content) + record.hours))]

\* new Set([...reportType, Unclassified])
AllContentTypes == {reportType[i] : i \in 1..Len(reportType)} \cup {Unclassified}

\* calculateVolunteerHoursByContentWithOptions listing every content type
\* as used
calculateVolunteerHoursListingAll(processedData, options) ==
  LET f == ContentFold(processedData, options)
      result == [i \in 1..Len(f.order) |->
                   [name |-> f.order[i],
                    cols |-> [c \in AllContentTypes |-> GetOrZero(f.stats[f.order[i]], c)]]]
      sorted == Values(SortPairs([i \in 1..Len(result) |->
                                    [k |-> 0 - SumValues(result[i].cols), v |-> result[i]]]))
  IN [data |-> sorted, contentTypes |-> AllContentTypes]

\* the element of a set of one element: Only({ F(x) : x \in {e} }) is F(e)
\* with e computed once
Only(S) == CHOOSE v \in S : TRUE

\* result: a row for every person of stats, with every content type
ContentRows(f) ==
  [i \in 1..Len(f.order) |->
     [name |-> f.order[i],
      cols |-> [c \in AllContentTypes |-> GetOrZero(f.stats[f.order[i]], c)]]]

\* .sort((a, b) => b.total - a.total)
ContentSorted(result) ==
  Values(SortPairs([i \in 1..Len(result) |->
                      [k |-> 0 - SumValues(result[i].cols), v |-> result[i]]]))

\* data: the rows sorted by total descending; contentTypes: the used types
\* (their sorted order is not modelled, the list is held as a set)
ContentStats(sorted) ==
  [data |-> sorted,
   contentTypes |-> {c \in AllContentTypes :
                       \E i \in 1..Len(sorted) : sorted[i].cols[c] > 0}]

calculateVolunteerHoursByContentWithOptions(processedData, options) ==
  Only({ ContentStats(sorted) :
           sorted \in { ContentSorted(result) :
                          result \in { ContentRows(f) :
                                         f \in {ContentFold(processedData, options)} } } })

calculateVolunteerHoursByContent(processedData) ==
  calculateVolunteerHoursByContentWithOptions(
    processedData, Options(<<>>, TRUE, 2025, FALSE, 0, FALSE, 0))

\* stats[name] += hours over the counted records of one content type;
\* contentType <<>> stands for "no content type given"
RECURSIVE TotalFold(_, _, _)
TotalFold(processedData, contentType, options) ==
  IF processedData = <<>> THEN [order |-> <<>>, stats |-> EmptyObject]
  ELSE LET prev == TotalFold(SubSeq(processedData, 1, Len(processedData) - 1),
                             contentType, options)
           record == processedData[Len(processedData)]
           name == record.standardName
           recordContent == OrUnclassified(record.matchedContentType)
       IN IF ~Counted(record, options) THEN prev
          ELSE IF contentType # <<>> /\ recordContent # contentType THEN prev
          ELSE [order |-> IF name \in DOMAIN prev.stats THEN prev.order
                          ELSE Append(prev.order, name),
                stats |-> SetKey(prev.stats, name, GetOrZero(prev.stats, name) + record.hours)]

calculateVolunteerTotalHoursForContentType(processedData, contentType, options) ==
  LET f == TotalFold(processedData, contentType, options)
  IN [data |-> Values(SortPairs([i \in 1..Len(f.order) |->
                                   [k |-> 0 - f.stats[f.order[i]],
                                    v |-> [name |-> f.order[i],
                                           hours |-> f.stats[f.order[i]]]]])),
      contentType |-> contentType]


(***************************************************************************)
(* StatisticsCharts.jsx chart 23 and exportCurrentChartsToExcel sheet 23:  *)
(* the difference of two person -> hours maps                              *)
(***************************************************************************)
\* the activity type U+624B U+4F5C (hand craft)
HandCraft == <<"shou", "zuo">>

\* [...new Set(names)]: first occurrences, in order
RECURSIVE Dedup(_)
Dedup(names) ==
  IF names = <<>> THEN <<>>
  ELSE LET front == Dedup(SubSeq(names, 1, Len(names) - 1))
           n == names[Len(names)]
       IN IF \E i \in 1..Len(front) : front[i] = n THEN front ELSE Append(front, n)

\* map[item.name] = item[column] || 0 over the rows, a later row overwriting
RECURSIVE ColumnMap(_, _)
ColumnMap(rows, column) ==
  IF rows = <<>> THEN EmptyObject
  ELSE SetKey(ColumnMap(SubSeq(rows, 1, Len(rows) - 1), column),
              rows[Len(rows)].name, GetOrZero(rows[Len(rows)].cols, column))

\* DifferenceOf with the two sides of the subtraction exchanged
DifferenceOfReversed(name, participantHoursMap, hourLogMap) ==
  LET handcraftHours == GetOrZero(participantHoursMap, name)
      trailLeadingHours == GetOrZero(hourLogMap, name)
  IN [name |-> name,
      difference |-> trailLeadingHours - handcraftHours,
      handcraftHours |-> handcraftHours,
      trailLeadingHours |-> trailLeadingHours]

DifferenceOf(name, participantHoursMap, hourLogMap) ==
  LET handcraftHours == GetOrZero(participantHoursMap, name)
      trailLeadingHours == GetOrZero(hourLogMap, name)
  IN [name |-> name,
      difference |-> handcraftHours - trailLeadingHours,
      handcraftHours |-> handcraftHours,
      trailLeadingHours |-> trailLeadingHours]

\* differenceData of chart 23, after its sort
differenceData(participantHours, hourLogRows) ==
  LET participantHoursMap == ColumnMap(participantHours, HandCraft)
      hourLogMap == ColumnMap(hourLogRows, TrailLeading)
      allNames == Dedup([i \in 1..Len(participantHours) |-> participantHours[i].name]
                        \o [i \in 1..Len(hourLogRows) |-> hourLogRows[i].name])
      all == [i \in 1..Len(allNames) |->
                DifferenceOf(allNames[i], participantHoursMap, hourLogMap)]
      kept == SelectSeq(all, LAMBDA d : d.difference # 0)
  IN Values(SortPairs([i \in 1..Len(kept) |-> [k |-> 0 - kept[i].difference, v |-> kept[i]]]))

\* differenceRows sorted by difference ascending
differenceRowsAscending(participantHoursForDifference, hourLogRows) ==
  LET participantHoursMap == ColumnMap(participantHoursForDifference, HandCraft)
      hourLogMap == ColumnMap(hourLogRows, TrailLeading)
      allNames == Dedup([i \in 1..Len(participantHoursForDifference) |->
                           participantHoursForDifference[i].name]
                        \o [i \in 1..Len(hourLogRows) |-> hourLogRows[i].name])
      all == [i \in 1..Len(allNames) |->
                [name |-> allNames[i],
                 difference |-> GetOrZero(participantHoursMap, allNames[i])
                                  - GetOrZero(hourLogMap, allNames[i])]]
      kept == SelectSeq(all, LAMBDA d : d.difference # 0)
  IN Values(SortPairs([i \in 1..Len(kept) |-> [k |-> kept[i].difference, v |-> kept[i]]]))

\* differenceRows of the export, after its sort
differenceRows(participantHoursForDifference, hourLogRows) ==
  LET participantHoursMap == ColumnMap(participantHoursForDifference, HandCraft)
      hourLogMap == ColumnMap(hourLogRows, TrailLeading)
      allNames == Dedup([i \in 1..Len(participantHoursForDifference) |->
                           participantHoursForDifference[i].name]
                        \o [i \in 1..Len(hourLogRows) |-> hourLogRows[i].name])
      all == [i \in 1..Len(allNames) |->
                [name |-> allNames[i],
                 difference |-> GetOrZero(participantHoursMap, allNames[i])
                                  - GetOrZero(hourLogMap, allNames[i])]]
      kept == SelectSeq(all, LAMBDA d : d.difference # 0)
  IN Values(SortPairs([i \in 1..Len(kept) |-> [k |-> 0 - kept[i].difference, v |-> kept[i]]]))

(***************************************************************************)
(* State                                                                   *)
(***************************************************************************)
VARIABLES
  dateValue,       \* the raw cell value given to the date routines
  activityDate,    \* the activity date given to the day-count routines
  dateOut,         \* the result of the date routine that ran
  partShape,       \* the lines a participants cell was written from
  partText,        \* the text of the participants cell
  partOut,         \* the result of parseParticipants on it
  data,            \* App state: the activity records (App.jsx useState)
  aggOut,          \* the result of the aggregate function that ran
  participantHours,\* rows of the person x activity type hours matrix
  hourLogRows,     \* hourLogData.data
  diffOut,         \* the difference list computed from the two
  rawHourLog,      \* rows returned by parseHourLogFile
  hlOut,           \* the result of the hour-log routine that ran
  nameIn,          \* a name given to normalizeName
  nameOut,         \* the results of the successive normalizeName calls
  loading,         \* App state: loading
  error,           \* App state: error
  upload,          \* the manpower upload in flight: its file and position
  hourLogData,     \* App state: hourLogData
  loadingHourLog,  \* App state: loadingHourLog
  errorHourLog,    \* App state: errorHourLog
  uploadHourLog,   \* the hour-log upload in flight: its file and position
  exportRun        \* the run of exportCurrentChartsToExcel: position, workbook, file

vars == << engine, aliasMap, dateValue, activityDate, dateOut, partShape, partText,
           partOut, data, aggOut, participantHours, hourLogRows, diffOut, rawHourLog,
           hlOut, nameIn, nameOut, loading, error, upload, hourLogData,
           loadingHourLog, errorHourLog, uploadHourLog, exportRun >>

dateVars == << dateValue, activityDate, dateOut >>
partVars == << partShape, partText, partOut >>
aggVars == << aggOut >>
reconVars == << participantHours, hourLogRows, diffOut >>
hourLogVars == << rawHourLog, hlOut >>
aliasVars == << nameIn, nameOut >>
appVars == << loading, error, upload >>
hourLogAppVars == << hourLogData, loadingHourLog, errorHourLog, uploadHourLog >>
exportVars == << exportRun >>

(***************************************************************************)
(* Values of the variables a specification does not use                    *)
(***************************************************************************)
NoDateOut ==
  [op |-> "none", date |-> Null, range |-> Ret(0),
   arg |-> <<>>, parsed |-> Parsed(<<>>, 0, FALSE)]
NoAggOut == [fn |-> "none", threw |-> FALSE, rows |-> <<>>]
NoUpload == [pc |-> "idle", file |-> [readable |-> TRUE, sheet |-> TRUE, rows |-> <<>>]]

DateIdle == dateValue = EmptyCell /\ activityDate = Null /\ dateOut = NoDateOut
PartIdle == partShape = <<>> /\ partText = <<>> /\ partOut = [done |-> FALSE, list |-> <<>>]
AggIdle == aggOut = NoAggOut
NoDiffOut == [fn |-> "none", rows |-> <<>>]
ReconIdle == participantHours = <<>> /\ hourLogRows = <<>> /\ diffOut = NoDiffOut
NoHlOut == [fn |-> "none", processed |-> <<>>, errors |-> <<>>]
HourLogIdle == rawHourLog = <<>> /\ hlOut = NoHlOut
AliasIdle == nameIn = <<>> /\ nameOut = <<>>
\* hourLogData null is held as a record without statistics
NoHourLogData == [loaded |-> FALSE, data |-> <<>>, contentTypes |-> {}, retraining |-> <<>>]
HourLogAppIdle ==
  /\ hourLogData = NoHourLogData /\ loadingHourLog = FALSE
  /\ errorHourLog = "" /\ uploadHourLog = NoUpload
\* no export is running: no workbook, no participant hours kept, no file
NoExport == [pc |-> "idle", sheets |-> <<>>, participantHoursForDifference |-> <<>>,
             file |-> FALSE]
ExportIdle == exportRun = NoExport
AppIdle == data = <<>> /\ loading = FALSE /\ error = "" /\ upload = NoUpload

(***************************************************************************)
(* The date routines on bounded inputs                                     *)
(***************************************************************************)
MonthStrs == { <<"0">>, <<"2">>, <<"6">>, <<"7">>, <<"1", "1">>, <<"1", "2">>, <<"1", "3">> }
EndMonthStrs == { <<"2">>, <<"7">>, <<"1", "2">>, <<"1", "3">> }
DayStrs == { <<"0">>, <<"1">>, <<"2", "8">>, <<"2", "9">>, <<"3", "0">>, <<"3", "1">>,
             <<"4", "0">> }

SingleTexts == { m \o <<"/">> \o d : m \in MonthStrs, d \in DayStrs }
ShortRangeTexts == { s \o <<"-">> \o d2 : s \in SingleTexts, d2 \in DayStrs }
LongRangeTexts ==
  { s \o <<"-">> \o m2 \o <<"/">> \o d2 : s \in SingleTexts, m2 \in EndMonthStrs, d2 \in DayStrs }
DayRangeTexts == { d \o <<"-">> \o d2 : d \in DayStrs, d2 \in DayStrs }
OtherTexts ==
  { <<"x">>, <<" ">>,
    <<"1", "/", "2", "-", "3", "-", "4">>,
    <<" ", "1", "1", "/", "2", "9", " ">>,
    <<"1", "1", "/", "2", "9", "(", "x", ")">>,
    <<"2", "/", "3", "0", FullLParen, "x", FullRParen>>,
    <<"1", "1", "/", "2", "9", " ", "-", " ", "3", "0">>,
    <<"2", "0", "2", "5", "/", "1", "/", "3">>,
    <<"2", "0", "2", "4", "-", "2", "-", "2", "9">>,
    <<"2", "0", "2", "5", "-", "2", "-", "2", "9">>,
    <<"1", "/", "3", "/", "2", "0", "2", "5">>,
    <<"2", "0", "2", "5", ".", "1", ".", "3">>,
    <<"2", "0", "2", "5", Nian, "1", Yue, "3", Ri>>,
    <<"1", "8", "9", "9", "/", "1", "/", "3">> }

DateTexts == SingleTexts \cup ShortRangeTexts \cup LongRangeTexts \cup DayRangeTexts
               \cup OtherTexts

\* 45658 is the serial of 2025-01-01
DateValues ==
  { TextCell(t) : t \in DateTexts }
    \cup { EmptyCell, DateCell(InvalidDate), DateCell(NewDate(2025, 10, 29)),
           NumberCell(0), NumberCell(45658), NumberCell(45991) }

ActivityDates == { Null, NewDate(2025, 10, 1) }

\* a name in front of a parenthetical
NameJia == <<"jia">>

InitDate ==
  /\ engine \in Engines
  /\ HourLogAppIdle /\ ExportIdle
  /\ aliasMap = <<>>
  /\ dateValue \in DateValues
  /\ activityDate \in ActivityDates
  /\ dateOut = NoDateOut
  /\ PartIdle /\ AggIdle /\ ReconIdle /\ HourLogIdle /\ AliasIdle /\ AppIdle

\* what the date routines leave alone
DateFrame ==
  UNCHANGED << hourLogAppVars, exportVars, engine, aliasMap, dateValue, activityDate, partVars, data, aggVars,
               reconVars, hourLogVars, aliasVars, appVars >>

ParseDate ==
  /\ dateOut.op = "none"
  /\ dateOut' = [NoDateOut EXCEPT !.op = "parseDate", !.date = parseDate(dateValue)]
  /\ DateFrame

ParseDateRange ==
  /\ dateOut.op = "none"
  /\ dateValue.kind = "text"
  /\ dateOut' = [NoDateOut EXCEPT !.op = "parseDateRange",
                                  !.range = parseDateRange(dateValue.text, activityDate)]
  /\ DateFrame

ParseNameWithDate ==
  /\ dateOut.op = "none"
  /\ dateValue.kind = "text"
  /\ \E open \in OpenParens, close \in CloseParens :
       LET arg == NameJia \o <<open>> \o dateValue.text \o <<close>>
       IN dateOut' = [NoDateOut EXCEPT !.op = "parseNameWithDate",
                                       !.arg = arg,
                                       !.parsed = parseNameWithDate(arg, activityDate)]
  /\ DateFrame

NextDate == ParseDate \/ ParseDateRange \/ ParseNameWithDate

SpecDate == InitDate /\ [][NextDate]_vars


(***************************************************************************)
(* The calendar of 2025, written out independently of the Date object      *)
(***************************************************************************)
DaysInMonth2025 == <<31, 28, 31, 30, 31, 30, 31, 31, 30, 31, 30, 31>>

RealDay2025(m, d) == m \in 1..12 /\ d >= 1 /\ d <= DaysInMonth2025[m]

RECURSIVE DayOfYear2025(_, _)
DayOfYear2025(m, d) ==
  IF m = 1 THEN d ELSE DaysInMonth2025[m - 1] + DayOfYear2025(m - 1, d)

\* day number of 2025-m-d: 55 years and 14 leap days after 1970-01-01
DayNumber2025(m, d) == 55 * 365 + 14 + DayOfYear2025(m, d) - 1

IsPrefix(p, s) == Len(p) <= Len(s) /\ SubSeq(s, 1, Len(p)) = p

\* the day count a day-count routine returned
DayCountOut ==
  IF dateOut.op = "parseDateRange" THEN dateOut.range.n ELSE dateOut.parsed.days

C7_ParseDateMD ==
  dateOut.op = "parseDate" =>
    \A m \in MonthStrs, d \in DayStrs :
      dateValue = TextCell(m \o <<"/">> \o d) =>
        IF RealDay2025(DigitsValue(m), DigitsValue(d))
        THEN dateOut.date = DateOf(DayNumber2025(DigitsValue(m), DigitsValue(d)))
        ELSE dateOut.date = Null


(***************************************************************************)
(* parseParticipants on bounded cell texts                                 *)
(***************************************************************************)
MaxLines == 2

\* the date in front of a line: none, M/D, M/D-D2 or M/D-M2/D2, and its colon
NoPrefix == [kind |-> "none", m |-> <<>>, d |-> <<>>, m2 |-> <<>>, d2 |-> <<>>, colon |-> ":"]
Single(m, d, colon) ==
  [kind |-> "single", m |-> m, d |-> d, m2 |-> <<>>, d2 |-> <<>>, colon |-> colon]
ShortRange(m, d, d2, colon) ==
  [kind |-> "short", m |-> m, d |-> d, m2 |-> <<>>, d2 |-> d2, colon |-> colon]
LongRange(m, d, m2, d2, colon) ==
  [kind |-> "long", m |-> m, d |-> d, m2 |-> m2, d2 |-> d2, colon |-> colon]

LinePrefixes ==
  { NoPrefix,
    Single(<<"1", "1">>, <<"2", "9">>, ":"),
    ShortRange(<<"1", "1">>, <<"2", "9">>, <<"3", "0">>, FullColon),
    LongRange(<<"6">>, <<"3", "0">>, <<"7">>, <<"1">>, ":"),
    ShortRange(<<"1", "1">>, <<"3", "0">>, <<"2", "9">>, FullColon),
    ShortRange(<<"1", "1">>, <<"3", "0">>, <<"2", "8">>, ":"),
    Single(<<"1", "3">>, <<"4", "0">>, ":") }

NameYi == <<"yi">>
NameJiaDated == <<"jia", "(", "8", "/", "2", "3", ")">>

\* the names of a line and the separator written between them
LineNames ==
  { [names |-> <<>>, sep |-> <<IdeoComma>>],
    [names |-> <<NameJia, NameYi>>, sep |-> <<IdeoComma>>],
    [names |-> <<NameJiaDated, NameYi>>, sep |-> <<",", " ">>],
    [names |-> <<NameYi, NameJia>>, sep |-> <<FullComma, FullComma>>] }

LineShapes == { [prefix |-> p, names |-> n.names, sep |-> n.sep] : p \in LinePrefixes, n \in LineNames }

RECURSIVE Join(_, _)
Join(parts, sep) ==
  IF parts = <<>> THEN <<>>
  ELSE IF Len(parts) = 1 THEN parts[1]
  ELSE parts[1] \o sep \o Join(Tail(parts), sep)

PrefixText(p) ==
  IF p.kind = "none" THEN <<>>
  ELSE IF p.kind = "single" THEN p.m \o <<"/">> \o p.d \o <<p.colon>>
  ELSE IF p.kind = "short" THEN p.m \o <<"/">> \o p.d \o <<"-">> \o p.d2 \o <<p.colon>>
  ELSE p.m \o <<"/">> \o p.d \o <<"-">> \o p.m2 \o <<"/">> \o p.d2 \o <<p.colon>>

LineText(shape) == PrefixText(shape.prefix) \o Join(shape.names, shape.sep)

CellText(shapes, newline) ==
  Join([i \in 1..Len(shapes) |-> LineText(shapes[i])], newline)

InitParticipants ==
  /\ engine = "v8"
  /\ HourLogAppIdle /\ ExportIdle
  /\ aliasMap = <<>>
  /\ activityDate \in ActivityDates
  /\ \E n \in 0..MaxLines : partShape \in [1..n -> LineShapes]
  /\ \E newline \in { <<NL>>, <<CR, NL>> } : partText = CellText(partShape, newline)
  /\ partOut = [done |-> FALSE, list |-> <<>>]
  /\ dateValue = EmptyCell /\ dateOut = NoDateOut
  /\ AggIdle /\ ReconIdle /\ HourLogIdle /\ AliasIdle /\ AppIdle

ParseParticipants ==
  /\ ~partOut.done
  /\ partOut' = [done |-> TRUE, list |-> parseParticipants(partText, activityDate)]
  /\ UNCHANGED << hourLogAppVars, exportVars, engine, aliasMap, dateVars, partShape, partText, data, aggVars,
                  reconVars, hourLogVars, aliasVars, appVars >>

NextParticipants == ParseParticipants

SpecParticipants == InitParticipants /\ [][NextParticipants]_vars

\* the day count of a line's date, from the calendar of 2025: 0 when a date
\* is not a real day
LineDayCount(p) ==
  LET mv == DigitsValue(p.m)
      dv == DigitsValue(p.d)
      m2v == IF p.kind = "long" THEN DigitsValue(p.m2) ELSE mv
      d2v == DigitsValue(p.d2)
  IN IF p.kind = "none" THEN 0
     ELSE IF ~RealDay2025(mv, dv) THEN 0
     ELSE IF p.kind = "single" THEN 1
     ELSE IF ~RealDay2025(m2v, d2v) THEN 0
     ELSE DayOfYear2025(m2v, d2v) - DayOfYear2025(mv, dv) + 1

\* the entries a line stands for: its names in order, each with the day
\* count of the line's date
ExpectedOfLine(shape) ==
  [i \in 1..Len(shape.names) |-> Participant(shape.names[i], LineDayCount(shape.prefix))]

RECURSIVE ExpectedOfCell(_)
ExpectedOfCell(shapes) ==
  IF shapes = <<>> THEN <<>>
  ELSE ExpectedOfLine(Head(shapes)) \o ExpectedOfCell(Tail(shapes))

\* every line that has a date in front also has a name behind it
EveryDatedLineHasNames(shapes) ==
  \A i \in 1..Len(shapes) : shapes[i].prefix.kind # "none" => shapes[i].names # <<>>

MaxRows == 2

Trail == <<"bu", "dao">>
NameAYi == <<"a", "yi">>
NameBing == <<"bing">>

\* the alias table of the aggregation runs: "a yi" is an alias of "yi"
AggAliases == << [key |-> NameAYi, value |-> NameYi] >>

SheetRow(date, status, type, city, days, hours, participants) ==
  [dateValue |-> TextCell(date), activityName |-> <<"x">>, status |-> status,
   daysValue |-> days, activityType |-> type, city |-> city,
   volunteerCountValue |-> NullNum, hoursValue |-> hours,
   participantsValue |-> participants]

Held == <<"ban">>
D1129 == <<"1", "1", "/", "2", "9">>
D0630 == <<"6", "/", "3", "0">>

RowInputs ==
  { \* a dated line: both names carry the prefix's two days
    SheetRow(D1129, Held, HandCraft, Taipei, NumberNum(2), NumberNum(4),
             <<"1", "1", "/", "2", "9", "-", "3", "0", FullColon>>
               \o NameJiaDated \o <<IdeoComma>> \o NameYi),
    \* no prefix: one name with a parenthetical day, one alias without any
    SheetRow(D0630, Held, Trail, Hualien, NumberNum(1), NumberNum(4),
             NameJiaDated \o <<FullComma>> \o NameAYi),
    \* empty type, city, hours and participants
    SheetRow(<<"1", "1", "/", "1">>, <<>>, <<>>, <<>>, NullNum, TextNaN, <<>>),
    \* two lines; the parenthetical range takes its month from the record
    SheetRow(D1129, Held, HandCraft, Kaohsiung, TextNum(2), NumberNum(3),
             NameBing \o <<NL>> \o <<"jia", "(", "2", "1", "-", "2", "2", ")">>),
    \* a parenthetical with two dashes
    SheetRow(D0630, Held, HandCraft, Taipei, NumberNum(1), NumberNum(2),
             <<"yi", "(", "1", "-", "2", "-", "3", ")">>),
    \* dates that are no day of 2025
    SheetRow(<<"1", "3", "/", "4", "0">>, Held, Trail, Taipei, NumberNum(1), NumberNum(2), NameJia),
    SheetRow(<<"2", "/", "3", "0">>, Held, Trail, Taichung, NumberNum(1), NumberNum(2), NameJia),
    \* a cancelled activity
    SheetRow(D1129, <<"A", Qu, Xiao>>, Trail, Taipei, NumberNum(1), NumberNum(2), NameJia),
    SheetRow(<<"1", "1", "/", "1">>, CancelMark, <<>>, <<>>, NullNum, TextNaN, <<>>),
    \* a prefix whose range ends before it starts
    SheetRow(D0630, Held, Trail, Taipei, NumberNum(1), NumberNum(5),
             <<"1", "1", "/", "3", "0", "-", "2", "9", ":">> \o NameJiaDated) }

\* the workbooks with a sheet "2025" of n rows drawn from S
ManpowerFiles(S, n) ==
  { [readable |-> TRUE, sheet |-> TRUE, rows |-> r] : r \in [1..n -> S] }

InitAgg ==
  /\ engine \in Engines
  /\ HourLogAppIdle /\ ExportIdle
  /\ aliasMap = AggAliases
  /\ \E n \in 0..MaxRows : \E file \in ManpowerFiles(RowInputs, n) :
       data = filterCancelled(parseExcelFile(file).data)
  /\ aggOut = NoAggOut
  /\ loading = FALSE /\ error = "" /\ upload = NoUpload
  /\ DateIdle /\ PartIdle /\ ReconIdle /\ HourLogIdle /\ AliasIdle

AggFrame ==
  UNCHANGED << hourLogAppVars, exportVars, engine, aliasMap, dateVars, partVars, data, reconVars, hourLogVars,
               aliasVars, appVars >>

MonthlyActivityTypeCount ==
  /\ aggOut' = [fn |-> "calculateMonthlyActivityTypeCount", threw |-> FALSE,
                rows |-> calculateMonthlyActivityTypeCount(data)]
  /\ AggFrame

MonthlyActivityTypeDays ==
  /\ aggOut' = [fn |-> "calculateMonthlyActivityTypeDays", threw |-> FALSE,
                rows |-> calculateMonthlyActivityTypeDays(data)]
  /\ AggFrame

MonthlyCityCount ==
  /\ aggOut' = [fn |-> "calculateMonthlyCityCount", threw |-> FALSE,
                rows |-> calculateMonthlyCityCount(data)]
  /\ AggFrame

MonthlyCityDays ==
  /\ aggOut' = [fn |-> "calculateMonthlyCityDays", threw |-> FALSE,
                rows |-> calculateMonthlyCityDays(data)]
  /\ AggFrame

MonthlyRegionCount ==
  /\ aggOut' = [fn |-> "calculateMonthlyRegionCount", threw |-> FALSE,
                rows |-> calculateMonthlyRegionCount(data)]
  /\ AggFrame

MonthlyRegionDays ==
  /\ aggOut' = [fn |-> "calculateMonthlyRegionDays", threw |-> FALSE,
                rows |-> calculateMonthlyRegionDays(data)]
  /\ AggFrame

\* the outcome of a call: it threw, or the rows it returned
Outcome(fn, result) == [fn |-> fn, threw |-> result.threw, rows |-> result.rows]

ParticipantCount ==
  /\ aggOut' = Outcome("calculateParticipantCount", calculateParticipantCount(data))
  /\ AggFrame

ParticipantHours ==
  /\ aggOut' = Outcome("calculateParticipantHours", calculateParticipantHours(data))
  /\ AggFrame

NextAgg ==
  \/ MonthlyActivityTypeCount
  \/ MonthlyActivityTypeDays
  \/ MonthlyCityCount
  \/ MonthlyCityDays
  \/ MonthlyRegionCount
  \/ MonthlyRegionDays
  \/ ParticipantCount
  \/ ParticipantHours

SpecAgg == InitAgg /\ [][NextAgg]_vars


PersonFunctions == {"calculateParticipantCount", "calculateParticipantHours"}

\* C1: participant parsing and person aggregation never raise: whatever a
\* name's parenthetical holds, calculateParticipantCount and
\* calculateParticipantHours complete normally.
C1_NeverRaise == aggOut.fn \in PersonFunctions => ~aggOut.threw

\* the column keys are the same in every row
Rectangular(rows) ==
  \A i \in 1..Len(rows) : \A j \in 1..Len(rows) :
    DOMAIN rows[i].cols = DOMAIN rows[j].cols

\* C2: in the output of every aggregate matrix function the set of category
\* column keys is identical in every row.
C2_Rectangular == (aggOut.fn # "none" /\ ~aggOut.threw) => Rectangular(aggOut.rows)

\* the participants of the records, as <<record index, participant index>>
ParticipantsIn(d) ==
  UNION { { <<i, j>> : j \in 1..Len(d[i].participants) } : i \in 1..Len(d) }

\* the hours credited to one participant of one record, in the order of the
\* rule: prefix days, then parenthetical days, then the record's hours
CreditedHours(record, participant) ==
  LET suffixDays == parseNameWithDate(participant.name, record.date).days
  IN IF participant.days > 0 THEN participant.days * 8
     ELSE IF suffixDays > 0 THEN suffixDays * 8
     ELSE record.hours

CanonicalNameOf(record, participant) ==
  normalizeName(parseNameWithDate(participant.name, record.date).name)

\* the sum of the credited hours that belong to the cell (name, type)
RECURSIVE CellSum(_, _, _, _)
CellSum(d, ps, name, type) ==
  IF ps = {} THEN 0
  ELSE LET p == CHOOSE p \in ps : TRUE
           record == d[p[1]]
           participant == record.participants[p[2]]
           mine == /\ CanonicalNameOf(record, participant) = name
                   /\ OrUnclassified(record.activityType) = type
       IN (IF mine THEN CreditedHours(record, participant) ELSE 0)
            + CellSum(d, ps \ {p}, name, type)

CanonicalNames(d) ==
  { CanonicalNameOf(d[p[1]], d[p[1]].participants[p[2]]) : p \in ParticipantsIn(d) }

\* C3: calculateParticipantHours credits each participant of a record the
\* prefix day count times 8 when that is > 0, otherwise the parenthetical day
\* count times 8 when that is > 0, otherwise the record's hours, and adds it
\* to the cell (canonical name, the record's activity type).
C3_HoursCredit ==
  (aggOut.fn = "calculateParticipantHours" /\ ~aggOut.threw) =>
    /\ { aggOut.rows[i].name : i \in 1..Len(aggOut.rows) } = CanonicalNames(data)
    /\ \A i \in 1..Len(aggOut.rows) :
         /\ \A k \in 1..Len(aggOut.rows) : aggOut.rows[k].name = aggOut.rows[i].name => k = i
         /\ DOMAIN aggOut.rows[i].cols = ActivityTypesOf(data)
         /\ \A t \in ActivityTypesOf(data) :
              aggOut.rows[i].cols[t] =
                CellSum(data, ParticipantsIn(data), aggOut.rows[i].name, t)

\* C3 witness: the three cases of the rule in one run: a prefix of two days
\* over a parenthetical of one day (16), a parenthetical alone (8), and an
\* alias without any date (the record's 4 hours)
C3_Witness ==
  /\ aggOut.fn = "calculateParticipantHours" /\ ~aggOut.threw
  /\ Len(data) = 2
  /\ data[1].participants = << Participant(NameJiaDated, 2), Participant(NameYi, 2) >>
  /\ data[2].participants = << Participant(NameJiaDated, 0), Participant(NameAYi, 0) >>
  /\ \E i \in 1..Len(aggOut.rows) :
       /\ aggOut.rows[i].name = NameJia
       /\ aggOut.rows[i].cols[HandCraft] = 16
       /\ aggOut.rows[i].cols[Trail] = 8
  /\ \E i \in 1..Len(aggOut.rows) :
       /\ aggOut.rows[i].name = NameYi
       /\ aggOut.rows[i].cols[HandCraft] = 16
       /\ aggOut.rows[i].cols[Trail] = 4

MaxTotalRows == 3

\* rows that differ in city, activity type, days, hours and participants
TotalRowInputs ==
  { SheetRow(D1129, Held, HandCraft, Taipei, NumberNum(1), NumberNum(4),
             NameJia \o <<IdeoComma>> \o NameYi),
    SheetRow(D0630, Held, Trail, NewTaipei, NumberNum(2), NumberNum(2), NameJiaDated),
    SheetRow(D1129, Held, HandCraft, Taichung, NumberNum(1), NumberNum(3), NameJia),
    \* no activity type, no participants
    SheetRow(D0630, Held, <<>>, Hualien, NumberNum(3), NullNum, <<>>),
    \* cities of no region
    SheetRow(D1129, Held, Trail, Kinmen, NumberNum(1), NumberNum(2), <<>>),
    SheetRow(D0630, Held, HandCraft, Lienchiang, NumberNum(1), NumberNum(2), NameAYi),
    \* no city, no days
    SheetRow(D1129, Held, Trail, <<>>, NullNum, NumberNum(2), <<>>),
    SheetRow(D0630, Held, Trail, Taipei, NumberNum(2), NumberNum(5), NameYi) }

InitTotals ==
  /\ engine \in Engines
  /\ HourLogAppIdle /\ ExportIdle
  /\ aliasMap = AggAliases
  /\ \E n \in 0..MaxTotalRows : \E file \in ManpowerFiles(TotalRowInputs, n) :
       data = filterCancelled(parseExcelFile(file).data)
  /\ aggOut = NoAggOut
  /\ loading = FALSE /\ error = "" /\ upload = NoUpload
  /\ DateIdle /\ PartIdle /\ ReconIdle /\ HourLogIdle /\ AliasIdle

ActivityTypeTotalCount ==
  /\ aggOut' = Outcome("calculateActivityTypeTotalCount",
                       Returned(calculateActivityTypeTotalCount(data)))
  /\ AggFrame

ActivityTypeTotalDays ==
  /\ aggOut' = Outcome("calculateActivityTypeTotalDays",
                       Returned(calculateActivityTypeTotalDays(data)))
  /\ AggFrame

CityTotalCount ==
  /\ aggOut' = Outcome("calculateCityTotalCount", Returned(calculateCityTotalCount(data)))
  /\ AggFrame

CityTotalDays ==
  /\ aggOut' = Outcome("calculateCityTotalDays", Returned(calculateCityTotalDays(data)))
  /\ AggFrame

RegionTotalCount ==
  /\ aggOut' = Outcome("calculateRegionTotalCount", Returned(calculateRegionTotalCount(data)))
  /\ AggFrame

RegionTotalDays ==
  /\ aggOut' = Outcome("calculateRegionTotalDays", Returned(calculateRegionTotalDays(data)))
  /\ AggFrame

NextTotals ==
  \/ ActivityTypeTotalCount
  \/ ActivityTypeTotalDays
  \/ CityTotalCount
  \/ CityTotalDays
  \/ RegionTotalCount
  \/ RegionTotalDays
  \/ MonthlyActivityTypeCount
  \/ MonthlyActivityTypeDays
  \/ ParticipantCount
  \/ ParticipantHours

SpecTotals == InitTotals /\ [][NextTotals]_vars

\* the value of a category in the rows of a total function, 0 when absent
TotalOf(rows, name) ==
  IF \E i \in 1..Len(rows) : rows[i].name = name
  THEN (CHOOSE r \in { rows[i] : i \in 1..Len(rows) } : r.name = name).value
  ELSE 0

\* the sum of a column of a person matrix over its rows
RECURSIVE ColumnSum(_, _)
ColumnSum(rows, type) ==
  IF rows = <<>> THEN 0
  ELSE GetOrZero(rows[Len(rows)].cols, type) + ColumnSum(SubSeq(rows, 1, Len(rows) - 1), type)

\* the hours credited to the named participants of the records of a type
RECURSIVE TypeCredit(_, _, _)
TypeCredit(d, ps, type) ==
  IF ps = {} THEN 0
  ELSE LET p == CHOOSE p \in ps : TRUE
           record == d[p[1]]
           participant == record.participants[p[2]]
           mine == /\ parseNameWithDate(participant.name, record.date).name # <<>>
                   /\ OrUnclassified(record.activityType) = type
       IN (IF mine THEN CreditedHours(record, participant) ELSE 0)
            + TypeCredit(d, ps \ {p}, type)

Without(d, i) == SubSeq(d, 1, i - 1) \o SubSeq(d, i + 1, Len(d))

\* the cell of a record's month and of a category in the rows of a
\* month x category function, 0 when the row or the column is absent
MonthCell(rows, record, cat) ==
  LET mine == { i \in 1..Len(rows) : /\ rows[i].year = getYear(record.date)
                                      /\ rows[i].monthNum = getMonth(record.date) }
  IN IF mine = {} THEN 0 ELSE GetOrZero(rows[CHOOSE i \in mine : TRUE].cols, cat)

\* the persons of a person matrix, in the order of its rows
PersonNames(rows) == [i \in 1..Len(rows) |-> rows[i].name]

\* the cells of a person matrix that are not 0
PersonCells(rows) ==
  { <<rows[i].name, t, rows[i].cols[t]>> :
      i \in 1..Len(rows), t \in UNION { DOMAIN rows[j].cols : j \in 1..Len(rows) } }

NonZeroCells(rows) == { c \in PersonCells(rows) : c[3] # 0 }

\* the records of the data that have no participant
Unattended(d) == { i \in 1..Len(d) : d[i].participants = <<>> }

RegionSequence == << North, Central, South, East, Unclassified >>

PositionIn(seq, x) == CHOOSE i \in 1..Len(seq) : seq[i] = x

\* the cities of the table
TableCities == DOMAIN cityRegions

\* a before b in the order of the city totals
CityBefore(a, b) ==
  /\ a # Unclassified
  /\ \/ b = Unclassified
     \/ a \in TableCities /\ b \notin TableCities
     \/ /\ a \in TableCities /\ b \in TableCities
        /\ \/ PositionIn(RegionSequence, getRegion(a)) < PositionIn(RegionSequence, getRegion(b))
           \/ /\ getRegion(a) = getRegion(b)
              /\ cityOrderForSort(a) < cityOrderForSort(b)
     \/ a \notin TableCities /\ b \notin TableCities

\* C20: the activity type totals are in descending order of their values;
\* the region totals are in the order north, central, south, east,
\* unclassified; the city totals are ordered by region, then by the order
\* inside the region, the cities of no region follow them and the
\* unclassified label is the last entry.
C20_TotalOrdering ==
  /\ aggOut.fn \in {"calculateActivityTypeTotalCount", "calculateActivityTypeTotalDays"} =>
       \A i, j \in 1..Len(aggOut.rows) : i < j => aggOut.rows[i].value >= aggOut.rows[j].value
  /\ aggOut.fn \in {"calculateRegionTotalCount", "calculateRegionTotalDays"} =>
       /\ \A i \in 1..Len(aggOut.rows) :
            \E k \in 1..Len(RegionSequence) : aggOut.rows[i].name = RegionSequence[k]
       /\ \A i, j \in 1..Len(aggOut.rows) :
            i < j => PositionIn(RegionSequence, aggOut.rows[i].name)
                       < PositionIn(RegionSequence, aggOut.rows[j].name)
  /\ aggOut.fn \in {"calculateCityTotalCount", "calculateCityTotalDays"} =>
       \A i, j \in 1..Len(aggOut.rows) :
         i < j => CityBefore(aggOut.rows[i].name, aggOut.rows[j].name)

\* C20 witness: the city totals of a record of no city, one of a county of no
\* region and one of the second city of the north, in this order: the
\* totals come out reversed
C20_Witness ==
  /\ aggOut.fn = "calculateCityTotalCount"
  /\ Len(data) = 3
  /\ data[1].city = <<>> /\ data[2].city = Kinmen /\ data[3].city = NewTaipei
  /\ PersonNames(aggOut.rows) = << NewTaipei, Kinmen, Unclassified >>


(***************************************************************************)
(* The reconciliation on bounded pairs of person -> hours rows             *)
(***************************************************************************)
MaxReconRows == 2

ReconNames == {NameJia, NameYi, NameBing}

\* a row of the person x activity type hours: its hand-craft column holds 3
\* or 5, or the row has no such column
HandCraftRows ==
  { [name |-> n, cols |-> (HandCraft :> v)] : n \in ReconNames, v \in {3, 5} }
    \cup { [name |-> n, cols |-> (Trail :> 4)] : n \in ReconNames }

\* a row of the hour-log person x content type hours
TrailLeadingRows ==
  { [name |-> n, cols |-> (TrailLeading :> v) @@ (Leading :> 1)] :
      n \in ReconNames, v \in {0, 2, 3} }

\* the aggregate functions give each person one row
DistinctNames(rows) ==
  \A i \in 1..Len(rows) : \A j \in 1..Len(rows) : rows[i].name = rows[j].name => i = j

RowLists(S, n) == { r \in [1..n -> S] : DistinctNames(r) }

InitRecon ==
  /\ engine = "v8"
  /\ HourLogAppIdle /\ ExportIdle
  /\ aliasMap = <<>>
  /\ \E n \in 0..MaxReconRows : participantHours \in RowLists(HandCraftRows, n)
  /\ \E n \in 0..MaxReconRows : hourLogRows \in RowLists(TrailLeadingRows, n)
  /\ diffOut = NoDiffOut
  /\ DateIdle /\ PartIdle /\ AggIdle /\ HourLogIdle /\ AliasIdle /\ AppIdle

ReconFrame ==
  UNCHANGED << hourLogAppVars, exportVars, engine, aliasMap, dateVars, partVars, data, aggVars, participantHours,
               hourLogRows, hourLogVars, aliasVars, appVars >>

NameAndDifference(rows) ==
  [i \in 1..Len(rows) |-> [name |-> rows[i].name, difference |-> rows[i].difference]]

\* chart 23 is drawn when both uploads hold rows
ChartDifference ==
  /\ hourLogRows # <<>>
  /\ diffOut' = [fn |-> "differenceData",
                 rows |-> NameAndDifference(differenceData(participantHours, hourLogRows))]
  /\ ReconFrame

\* sheet 23 is written when both uploads hold rows
ExportDifference ==
  /\ hourLogRows # <<>>
  /\ diffOut' = [fn |-> "differenceRows",
                 rows |-> differenceRows(participantHours, hourLogRows)]
  /\ ReconFrame

NextRecon ==
  \/ ChartDifference
  \/ ExportDifference

SpecRecon == InitRecon /\ [][NextRecon]_vars

\* the hours of a name on one side: its row's column, 0 without one
HoursOf(rows, column, name) ==
  IF \E i \in 1..Len(rows) : rows[i].name = name /\ column \in DOMAIN rows[i].cols
  THEN LET i == CHOOSE i \in 1..Len(rows) :
                  rows[i].name = name /\ column \in DOMAIN rows[i].cols
       IN rows[i].cols[column]
  ELSE 0

MapA(name) == HoursOf(participantHours, HandCraft, name)
MapB(name) == HoursOf(hourLogRows, TrailLeading, name)

UnionOfNames ==
  { participantHours[i].name : i \in 1..Len(participantHours) }
    \cup { hourLogRows[i].name : i \in 1..Len(hourLogRows) }

\* C4: the difference list holds exactly the names of the union of both maps
\* whose A - B is not 0, each once with difference = A - B, sorted by
\* difference descending.
C4_Reconciliation ==
  diffOut.fn # "none" =>
    /\ { diffOut.rows[i].name : i \in 1..Len(diffOut.rows) }
         = { n \in UnionOfNames : MapA(n) - MapB(n) # 0 }
    /\ \A i \in 1..Len(diffOut.rows) :
         /\ diffOut.rows[i].difference = MapA(diffOut.rows[i].name) - MapB(diffOut.rows[i].name)
         /\ \A j \in 1..Len(diffOut.rows) :
              /\ diffOut.rows[i].name = diffOut.rows[j].name => i = j
              /\ i < j => diffOut.rows[i].difference >= diffOut.rows[j].difference

\* C4 witness: A = {jia: 5}, B = {jia: 3, yi: 2} gives [(jia, 2), (yi, -2)]
C4_Witness ==
  /\ diffOut.fn = "differenceData"
  /\ Len(participantHours) = 1
  /\ MapA(NameJia) = 5
  /\ Len(hourLogRows) = 2
  /\ MapB(NameJia) = 3 /\ MapB(NameYi) = 2
  /\ diffOut.rows = << [name |-> NameJia, difference |-> 2],
                       [name |-> NameYi, difference |-> 0 - 2] >>


(***************************************************************************)
(* App: the manpower upload                                                *)
(***************************************************************************)
NoValidDataMessage == "no valid activity data"

\* the rows of the uploaded sheets: valid ones, cancelled ones, and ones
\* whose date is no day of 2025
UploadRowInputs ==
  { SheetRow(D1129, Held, HandCraft, Taipei, NumberNum(2), NumberNum(4), NameJia),
    SheetRow(D0630, <<>>, <<>>, <<>>, NullNum, TextNaN, <<>>),
    SheetRow(D1129, <<"A", Qu, Xiao>>, Trail, Taipei, NumberNum(1), NumberNum(2), NameJia),
    SheetRow(<<"1", "1", "/", "1">>, CancelMark, <<>>, <<>>, NullNum, TextNaN, <<>>),
    SheetRow(D0630, <<Space, Qu, Xiao, "(", "B", ")">>, HandCraft, Hualien,
             NumberNum(1), NumberNum(2), NameYi),
    SheetRow(<<"2", "/", "3", "0">>, Held, Trail, Taichung, NumberNum(1), NumberNum(2), NameJia) }

\* a workbook that cannot be read and one without the sheet "2025"
BrokenFiles ==
  { [readable |-> FALSE, sheet |-> TRUE, rows |-> <<>>],
    [readable |-> TRUE, sheet |-> FALSE, rows |-> <<>>] }

InitApp ==
  /\ engine \in Engines
  /\ HourLogAppIdle /\ ExportIdle
  /\ aliasMap = AggAliases
  /\ data = <<>>
  /\ loading = FALSE
  /\ error = ""
  /\ upload = NoUpload
  /\ DateIdle /\ PartIdle /\ AggIdle /\ ReconIdle /\ HourLogIdle /\ AliasIdle

AppFrame ==
  UNCHANGED << hourLogAppVars, exportVars, engine, aliasMap, dateVars, partVars, aggVars, reconVars, hourLogVars,
               aliasVars >>

\* ManpowerUploadStart without setError(null) and setData([])
ManpowerUploadStartKeeping(files) ==
  /\ ~loading
  /\ \E file \in files :
       upload' = [pc |-> "parsing", file |-> file, promise |-> parseExcelFile(file)]
  /\ loading' = TRUE
  /\ UNCHANGED << error, data >>
  /\ AppFrame

\* handleManpowerUpload up to its await: parseExcelFile(file) is called and
\* its promise, held with what it will settle to, is awaited; the file input
\* is disabled while loading is set
ManpowerUploadStartOf(files) ==
  /\ ~loading
  /\ \E file \in files :
       upload' = [pc |-> "parsing", file |-> file, promise |-> parseExcelFile(file)]
  /\ loading' = TRUE
  /\ error' = ""
  /\ data' = <<>>
  /\ AppFrame

\* an upload of one of the workbooks of up to MaxRows rows, or of a broken
\* one, chosen in the file input while it is enabled
ManpowerUploadStart ==
  /\ ~loading
  /\ \E n \in 0..MaxRows :
       ManpowerUploadStartOf(ManpowerFiles(UploadRowInputs, n) \cup BrokenFiles)

\* SetFiltered without the test of the length: the filtered records become
\* the data even when there are none
SetFilteredAlways(filteredData) == data' = filteredData /\ error' = error

\* the await resolves: filterCancelled, then setData or the error message
SetFiltered(filteredData) ==
  IF Len(filteredData) = 0
  THEN error' = NoValidDataMessage /\ data' = data
  ELSE data' = filteredData /\ error' = error

ManpowerUploadResolved ==
  /\ upload.pc = "parsing"
  /\ \E rawData \in {upload.promise} :
       /\ ~rawData.threw
       /\ SetFiltered(filterCancelled(rawData.data))
  /\ loading' = FALSE
  /\ upload' = [upload EXCEPT !.pc = "idle"]
  /\ AppFrame

\* ManpowerUploadRejected without the finally block
ManpowerUploadRejectedNoFinally ==
  /\ upload.pc = "parsing"
  /\ \E rawData \in {upload.promise} :
       /\ rawData.threw
       /\ error' = rawData.message
  /\ loading' = loading
  /\ upload' = [upload EXCEPT !.pc = "idle"]
  /\ data' = data
  /\ AppFrame

\* the await rejects: the catch block
ManpowerUploadRejected ==
  /\ upload.pc = "parsing"
  /\ \E rawData \in {upload.promise} :
       /\ rawData.threw
       /\ error' = rawData.message
  /\ loading' = FALSE
  /\ upload' = [upload EXCEPT !.pc = "idle"]
  /\ data' = data
  /\ AppFrame

NextApp ==
  \/ ManpowerUploadStart
  \/ ManpowerUploadResolved
  \/ ManpowerUploadRejected

SpecApp == InitApp /\ [][NextApp]_vars

\* C8: no record whose status contains the cancelled marker is ever in the
\* application's data, whatever the record's other fields are.
C8_NoCancelledInData ==
  \A i \in 1..Len(data) : ~Includes(data[i].status, CancelMark)

\* C8 witness: an upload of two rows, one of them cancelled, has finished and
\* left the other row as the application's data
C8_Witness ==
  /\ upload.pc = "idle"
  /\ ~loading
  /\ Len(upload.file.rows) = 2
  /\ Includes(upload.file.rows[1].status, CancelMark)
  /\ Trim(upload.file.rows[1].status) # CancelMark
  /\ Len(data) = 1
  /\ data[1].rowNumber = 3


(***************************************************************************)
(* parseExcelFile on bounded sheets                                        *)
(***************************************************************************)
MaxExcelRows == 2

\* date cells: texts of a real day, of no day, of a day some engines accept;
\* no value; Date objects; serial numbers
ExcelDateCells ==
  { TextCell(D1129), TextCell(<<"1", "3", "/", "4", "0">>), TextCell(<<"2", "/", "3", "0">>),
    EmptyCell, DateCell(InvalidDate), DateCell(NewDate(2025, 10, 29)), NumberCell(45658) }

\* the cells of days, volunteer count and hours
ExcelNumberCells ==
  { << NumberNum(2), NullNum, NumberNum(4) >>,
    << NumberNum(0), NumberNum(0 - 1), TextNaN >>,
    << TextNum(3), TextNum(0 - 2), NullNum >>,
    << TextNaN, NumberNum(5), TextNum(6) >>,
    << NumberNum(0 - 1), TextNaN, NumberNum(0) >> }

ExcelRowInputs ==
  { [dateValue |-> d, activityName |-> <<"x">>, status |-> Held, daysValue |-> n[1],
     activityType |-> HandCraft, city |-> Taipei, volunteerCountValue |-> n[2],
     hoursValue |-> n[3], participantsValue |-> NameJia] :
      d \in ExcelDateCells, n \in ExcelNumberCells }

\* data holds the array parseExcelFile resolved with, error the message it
\* rejected with
InitExcel ==
  /\ engine \in Engines
  /\ HourLogAppIdle /\ ExportIdle
  /\ aliasMap = AggAliases
  /\ \E n \in 0..MaxExcelRows : \E file \in ManpowerFiles(ExcelRowInputs, n) \cup BrokenFiles :
       upload = [pc |-> "parsing", file |-> file]
  /\ data = <<>>
  /\ loading = FALSE
  /\ error = ""
  /\ DateIdle /\ PartIdle /\ AggIdle /\ ReconIdle /\ HourLogIdle /\ AliasIdle

ParseExcelResolved ==
  /\ upload.pc = "parsing"
  /\ \E rawData \in {parseExcelFile(upload.file)} :
       /\ ~rawData.threw
       /\ data' = rawData.data
  /\ upload' = [upload EXCEPT !.pc = "resolved"]
  /\ UNCHANGED << loading, error >>
  /\ AppFrame

ParseExcelRejected ==
  /\ upload.pc = "parsing"
  /\ \E rawData \in {parseExcelFile(upload.file)} :
       /\ rawData.threw
       /\ error' = rawData.message
  /\ upload' = [upload EXCEPT !.pc = "rejected"]
  /\ UNCHANGED << loading, data >>
  /\ AppFrame

NextExcel ==
  \/ ParseExcelResolved
  \/ ParseExcelRejected

SpecExcel == InitExcel /\ [][NextExcel]_vars

\* the date cells that hold no date: no value, an invalid Date, a text of no
\* day that no engine accepts
UnparseableDateCells ==
  { EmptyCell, DateCell(InvalidDate), TextCell(<<"1", "3", "/", "4", "0">>) }

\* the number of a cell when it holds a number, or a text that converts to
\* one, greater than 0, and 0 otherwise
ClampedNumber(cell) ==
  IF cell.kind \in {"number", "numtext"} /\ cell.n > 0 THEN cell.n ELSE 0

\* the sheet rows kept: those whose date parseDate returns a date for
ParseableRows == { k \in 1..Len(upload.file.rows) : IsDate(parseDate(upload.file.rows[k].dateValue)) }

\* C15: every record parseExcelFile returns has a valid date, never null, and
\* days, hours and volunteerCount that are numbers >= 0: the cell's number
\* when it is positive, 0 when the cell is empty, not numeric or not positive.
\* The records are the rows whose date parses, in order; a row whose date
\* cannot be parsed is not among them.
C15_ValidRecords ==
  upload.pc = "resolved" =>
    /\ Len(data) = Cardinality(ParseableRows)
    /\ \A i \in 1..Len(data) :
         /\ IsDate(data[i].date)
         /\ data[i].rowNumber - 1 \in ParseableRows
         /\ Cardinality({k \in ParseableRows : k <= data[i].rowNumber - 1}) = i
         /\ upload.file.rows[data[i].rowNumber - 1].dateValue \notin UnparseableDateCells
         /\ data[i].days \in Nat
         /\ data[i].hours \in Nat
         /\ data[i].volunteerCount \in Nat
         /\ data[i].days = ClampedNumber(upload.file.rows[data[i].rowNumber - 1].daysValue)
         /\ data[i].hours = ClampedNumber(upload.file.rows[data[i].rowNumber - 1].hoursValue)
         /\ data[i].volunteerCount
              = ClampedNumber(upload.file.rows[data[i].rowNumber - 1].volunteerCountValue)

\* C15 witness: a sheet of two rows, the first with a text of no day as its
\* date, the second with a negative number of days, a text that is no number
\* as volunteer count and 0 hours: one record, of sheet row 3, with 0 three
\* times
C15_Witness ==
  /\ upload.pc = "resolved"
  /\ Len(upload.file.rows) = 2
  /\ upload.file.rows[1].dateValue = TextCell(<<"1", "3", "/", "4", "0">>)
  /\ upload.file.rows[2].daysValue = NumberNum(0 - 1)
  /\ Len(data) = 1
  /\ data[1].rowNumber = 3
  /\ IsDate(data[1].date)
  /\ data[1].days = 0 /\ data[1].hours = 0 /\ data[1].volunteerCount = 0

(***************************************************************************)
(* parseHourLogFile on bounded sheets                                      *)
(***************************************************************************)
MaxHourLogFileRows == 2

HourLogSheetRow(name, date, content, hours) ==
  [nameValue |-> name, dateValue |-> date, contentValue |-> content, hoursValue |-> hours]

\* names: one, one between blanks, blanks only, none
HourLogNameCells == { <<"wang", "xiao", "ming">>, <<Space, "chen", Space>>, <<Space>>, <<>> }

\* dates: texts of a day of 2025 without and with the year, of another year,
\* of no day; no value; Date objects of 2025 and 2024; serials of 2025-01-01
\* and of 2023-03-15
HourLogDateCells ==
  { TextCell(<<"1", "/", "3">>), TextCell(<<"2", "0", "2", "5", "/", "1", "/", "3">>),
    TextCell(<<"2", "0", "2", "4", "/", "1", "/", "3">>), TextCell(<<"1", "3", "/", "4", "0">>),
    EmptyCell, DateCell(NewDate(2025, 10, 29)), DateCell(NewDate(2024, 10, 29)),
    NumberCell(45658), NumberCell(45000) }

HourLogHourCells == { NumberNum(0), NumberNum(0 - 1), TextNum(3), TextNaN, NullNum }

\* every name with every date and 2 hours; one name and date with the other
\* hours; a row without content; an empty row
HourLogSheetRows ==
  { HourLogSheetRow(n, d, Leading, NumberNum(2)) : n \in HourLogNameCells, d \in HourLogDateCells }
    \cup { HourLogSheetRow(<<"wang", "xiao", "ming">>, TextCell(<<"1", "/", "3">>), Leading, h) :
             h \in HourLogHourCells }
    \cup { HourLogSheetRow(<<"wang", "xiao", "ming">>, NumberCell(45658), <<>>, TextNum(3)),
           HourLogSheetRow(<<>>, EmptyCell, <<>>, NullNum) }

\* rawHourLog holds the array parseHourLogFile resolved with, error the
\* message it rejected with
InitHourLogFile ==
  /\ engine \in Engines
  /\ HourLogAppIdle /\ ExportIdle
  /\ aliasMap = AggAliases
  /\ \E n \in 0..MaxHourLogFileRows :
       \E file \in ManpowerFiles(HourLogSheetRows, n) \cup BrokenFiles :
         upload = [pc |-> "parsing", file |-> file]
  /\ rawHourLog = <<>>
  /\ hlOut = NoHlOut
  /\ data = <<>> /\ loading = FALSE /\ error = ""
  /\ DateIdle /\ PartIdle /\ AggIdle /\ ReconIdle /\ AliasIdle

HourLogFileFrame ==
  UNCHANGED << hourLogAppVars, exportVars, engine, aliasMap, dateVars, partVars, data, aggVars, reconVars, hlOut,
               aliasVars, loading >>

ParseHourLogResolved ==
  /\ upload.pc = "parsing"
  /\ \E parsed \in {parseHourLogFile(upload.file)} :
       /\ ~parsed.threw
       /\ rawHourLog' = parsed.data
  /\ upload' = [upload EXCEPT !.pc = "resolved"]
  /\ UNCHANGED error
  /\ HourLogFileFrame

ParseHourLogRejected ==
  /\ upload.pc = "parsing"
  /\ \E parsed \in {parseHourLogFile(upload.file)} :
       /\ parsed.threw
       /\ error' = parsed.message
  /\ upload' = [upload EXCEPT !.pc = "rejected"]
  /\ UNCHANGED rawHourLog
  /\ HourLogFileFrame

NextHourLogFile ==
  \/ ParseHourLogResolved
  \/ ParseHourLogRejected

SpecHourLogFile == InitHourLogFile /\ [][NextHourLogFile]_vars

\* a sheet row that must be dropped: its name is empty once trimmed, its
\* hours are not a number above 0, or its date does not parse
MustBeDropped(row) ==
  \/ Trim(row.nameValue) = <<>>
  \/ ClampedNumber(row.hoursValue) = 0
  \/ ~IsDate(parseDate(row.dateValue))

\* C16: every record parseHourLogFile returns has a name that is not empty
\* and has no blank around it, hours > 0 and a valid date, never null; a row
\* with an empty name, with hours that are not positive or not a number, or
\* with a date that does not parse is not among the records.
C16_ValidHourLogRecords ==
  upload.pc = "resolved" =>
    /\ \A i \in 1..Len(rawHourLog) :
         /\ rawHourLog[i].name # <<>>
         /\ rawHourLog[i].name = Trim(rawHourLog[i].name)
         /\ rawHourLog[i].hours \in Nat /\ rawHourLog[i].hours > 0
         /\ IsDate(rawHourLog[i].date)
         /\ \A j \in 1..Len(rawHourLog) : i < j => rawHourLog[i].rowNumber < rawHourLog[j].rowNumber
    /\ \A k \in 1..Len(upload.file.rows) :
         MustBeDropped(upload.file.rows[k]) =>
           \A i \in 1..Len(rawHourLog) : rawHourLog[i].rowNumber # k + 1

\* C16 witness: a sheet of two rows, the first with blanks for a name and 2
\* hours on a day of 2025, the second with a name between blanks: one record,
\* of sheet row 3, with the name trimmed
C16_Witness ==
  /\ upload.pc = "resolved"
  /\ Len(upload.file.rows) = 2
  /\ upload.file.rows[1].nameValue = <<Space>>
  /\ upload.file.rows[1].dateValue = NumberCell(45658)
  /\ upload.file.rows[2].nameValue = <<Space, "chen", Space>>
  /\ Len(rawHourLog) = 1
  /\ rawHourLog[1].rowNumber = 3
  /\ rawHourLog[1].name = <<"chen">>
  /\ rawHourLog[1].hours = 2

(***************************************************************************)
(* processHourLogData on bounded hour-log rows                             *)
(***************************************************************************)
MaxHourLogRows == 2

NameWangXiaoMing == <<"wang", "xiao", "ming">>
NameXiaoMing == <<"xiao", "ming">>
NameLiDaHua == <<"li", "da", "hua">>
NameChen == <<"chen">>

\* the alias table of the hour-log runs
HourLogAliases ==
  << [key |-> <<"a", "ming">>, value |-> NameWangXiaoMing],
     [key |-> NameAYi, value |-> NameYi] >>

HourLogNames == { NameWangXiaoMing, NameXiaoMing, NameLiDaHua, NameYi, NameChen, <<>> }

\* contents: trail work leading with a note, leading alone, leading followed
\* by retraining, something else, none
HourLogContents ==
  { TrailLeading \o <<"(", "x", ")">>, <<"x">> \o Leading, Leading \o Retraining,
    <<"qi", "ta">>, <<>> }

HourLogRow(name, content, rowNumber) ==
  [name |-> name, date |-> NewDate(2025, 0, 3), content |-> content, hours |-> 2,
   rowNumber |-> rowNumber]

\* the lists of n rows, numbered from sheet row 2
HourLogInputs(n) ==
  { [i \in 1..n |-> HourLogRow(names[i], contents[i], i + 1)] :
      names \in [1..n -> HourLogNames], contents \in [1..n -> HourLogContents] }

InitHourLog ==
  /\ engine = "v8"
  /\ HourLogAppIdle /\ ExportIdle
  /\ aliasMap = HourLogAliases
  /\ \E n \in 0..MaxHourLogRows : rawHourLog \in HourLogInputs(n)
  /\ hlOut = NoHlOut
  /\ DateIdle /\ PartIdle /\ AggIdle /\ ReconIdle /\ AliasIdle /\ AppIdle

ProcessHourLog ==
  /\ \E out \in {processHourLogData(rawHourLog)} :
       hlOut' = [fn |-> "processHourLogData",
                 processed |-> out.processed, errors |-> out.errors]
  /\ UNCHANGED << hourLogAppVars, exportVars, engine, aliasMap, dateVars, partVars, data, aggVars, reconVars,
                  rawHourLog, aliasVars, appVars >>

NextHourLog == ProcessHourLog

SpecHourLog == InitHourLog /\ [][NextHourLog]_vars

\* the canonical names of the table
CanonicalValues == { aliasMap[i].value : i \in 1..Len(aliasMap) }

\* the last two characters of a name without surrounding blanks, the whole
\* name when it has at most two
SuffixOf(name) ==
  IF Len(name) <= 2 THEN name ELSE << name[Len(name) - 1], name[Len(name)] >>

HasCanonical(name) == \E v \in CanonicalValues : SuffixOf(v) = SuffixOf(name)

HasKeyword(content) == \E i \in 1..Len(reportType) : Includes(content, reportType[i])

\* the positions of the input rows with a name
KeptRows == { i \in 1..Len(rawHourLog) : rawHourLog[i].name # <<>> }

KeywordsIn(content) == { i \in 1..Len(reportType) : Includes(content, reportType[i]) }

MaxAliases == 3

AliasNames == { <<"a">>, <<"b">>, <<"c">>, <<"d">> }

\* the keys of a JSON object are distinct
DistinctKeys(map) ==
  \A i \in 1..Len(map) : \A j \in 1..Len(map) : map[i].key = map[j].key => i = j

\* the tables of n aliases
AliasTables(n) ==
  { m \in [1..n -> [key : AliasNames, value : AliasNames]] : DistinctKeys(m) }

InitAlias ==
  /\ engine = "v8"
  /\ HourLogAppIdle /\ ExportIdle
  /\ \E n \in 1..MaxAliases : aliasMap \in AliasTables(n)
  /\ nameIn \in { aliasMap[i].value : i \in 1..Len(aliasMap) }
  /\ nameOut = <<>>
  /\ DateIdle /\ PartIdle /\ AggIdle /\ ReconIdle /\ HourLogIdle /\ AppIdle

AliasFrame ==
  UNCHANGED << hourLogAppVars, exportVars, engine, aliasMap, dateVars, partVars, data, aggVars, reconVars,
               hourLogVars, nameIn, appVars >>

\* normalizeName(x)
Normalize ==
  /\ nameOut = <<>>
  /\ nameOut' = << normalizeName(nameIn) >>
  /\ AliasFrame

\* normalizeName(normalizeName(x))
NormalizeAgain ==
  /\ Len(nameOut) = 1
  /\ nameOut' = Append(nameOut, normalizeName(nameOut[1]))
  /\ AliasFrame

NextAlias ==
  \/ Normalize
  \/ NormalizeAgain

SpecAlias == InitAlias /\ [][NextAlias]_vars

NoChains ==
  \A i \in 1..Len(aliasMap) : \A j \in 1..Len(aliasMap) :
    aliasMap[j].key = aliasMap[i].value => aliasMap[j].value = aliasMap[j].key

MaxFindAliases == 3

NameLiXiaoMing == <<"li", "xiao", "ming">>
\* a canonical value written with a blank after it
NameChenXiaoMingPadded == <<"chen", "xiao", "ming", Space>>

FindValues ==
  { NameWangXiaoMing, NameLiXiaoMing, NameXiaoMing, <<"ming">>, NameChen,
    NameChenXiaoMingPadded }

\* the suffixes looked for: none, ones some value ends with, one no value ends
\* with, one with a blank
FindSuffixes ==
  { <<>>, NameXiaoMing, <<"ming">>, NameChen, <<"da", "hua">>, <<"ming", Space>> }

FindTables(n) ==
  { m \in [1..n -> [key : AliasNames, value : FindValues]] : DistinctKeys(m) }

InitFind ==
  /\ engine = "v8"
  /\ HourLogAppIdle /\ ExportIdle
  /\ \E n \in 0..MaxFindAliases : aliasMap \in FindTables(n)
  /\ nameIn \in FindSuffixes
  /\ nameOut = <<>>
  /\ DateIdle /\ PartIdle /\ AggIdle /\ ReconIdle /\ HourLogIdle /\ AppIdle

\* findNameByLastTwoChars(s); the result <<>> stands for null
FindNameByLastTwoChars ==
  /\ nameOut = <<>>
  /\ nameOut' = << findNameByLastTwoChars(nameIn) >>
  /\ AliasFrame

NextFind == FindNameByLastTwoChars

SpecFind == InitFind /\ [][NextFind]_vars

\* the entries whose value, without surrounding blanks, ends with s
EntriesEndingWith(s) ==
  { i \in 1..Len(aliasMap) : SuffixOf(Trim(aliasMap[i].value)) = s }

\* C11: findNameByLastTwoChars(s) is null when s is empty or no entry's value
\* has s as its last two characters (as its whole text when it has at most
\* two), and is otherwise the value of the first such entry in the table's
\* iteration order, also when a later entry with another value matches.
C11_FirstEntryWins ==
  Len(nameOut) = 1 =>
    IF nameIn = <<>> \/ EntriesEndingWith(nameIn) = {}
    THEN nameOut[1] = <<>>
    ELSE \E i \in EntriesEndingWith(nameIn) :
           /\ \A j \in EntriesEndingWith(nameIn) : i <= j
           /\ nameOut[1] = aliasMap[i].value

\* C11 witness: three entries, the second and the third with different values
\* that share the suffix looked for, and the second one's value was returned
C11_Witness ==
  /\ Len(nameOut) = 1
  /\ Len(aliasMap) = 3
  /\ EntriesEndingWith(nameIn) = {2, 3}
  /\ aliasMap[2].value # aliasMap[3].value
  /\ nameOut[1] = aliasMap[2].value

(***************************************************************************)
(* The hour-log statistics on bounded hour-log rows                        *)
(***************************************************************************)
MaxStatRows == 2

StatRow(name, content, year, hours) ==
  [name |-> name, date |-> NewDate(year, 0, 3), content |-> content, hours |-> hours]

\* rows of two persons, one of them under two spellings, of two years; the
\* copy of parseHourLogFile without the year filter keeps the rows of 2024
StatRows ==
  { StatRow(NameWangXiaoMing, TrailLeading, 2025, 2),
    StatRow(NameXiaoMing, <<"x">> \o Leading, 2025, 3),
    StatRow(NameXiaoMing, Retraining, 2024, 4),
    StatRow(NameLiDaHua, Retraining, 2025, 5),
    StatRow(NameLiDaHua, <<"qi", "ta">>, 2025, 1),
    StatRow(NameYi, <<>>, 2024, 2),
    StatRow(NameYi, TrailLeading, 2025, 6) }

\* the lists of n rows, numbered from sheet row 2
StatInputs(n) ==
  { [i \in 1..n |-> [name |-> r[i].name, date |-> r[i].date, content |-> r[i].content,
                      hours |-> r[i].hours, rowNumber |-> i + 1]] :
      r \in [1..n -> StatRows] }

\* no filter; { year: 2025 }, the options of calculateVolunteerHoursByContent;
\* { years: [2024] }; { startYear: 2023, endYear: 2024 }
NoOptions == Options(<<>>, FALSE, 0, FALSE, 0, FALSE, 0)
StatOptions ==
  { NoOptions,
    Options(<<>>, TRUE, 2025, FALSE, 0, FALSE, 0),
    Options(<<2024>>, TRUE, 2025, FALSE, 0, FALSE, 0),
    Options(<<>>, FALSE, 0, TRUE, 2023, TRUE, 2024) }

InitHourLogStats ==
  /\ engine = "v8"
  /\ HourLogAppIdle /\ ExportIdle
  /\ aliasMap = HourLogAliases
  /\ \E n \in 0..MaxStatRows : rawHourLog \in StatInputs(n)
  /\ hlOut = NoHlOut
  /\ data = <<>> /\ loading = FALSE /\ error = "" /\ upload = NoUpload
  /\ DateIdle /\ PartIdle /\ AggIdle /\ ReconIdle /\ AliasIdle

HourLogStatsFrame ==
  UNCHANGED << hourLogAppVars, exportVars, engine, aliasMap, dateVars, partVars, data, aggVars, reconVars,
               rawHourLog, aliasVars, appVars >>

\* the statistics of the rows processHourLogData returned
VolunteerHoursByContent ==
  /\ hlOut.fn = "processHourLogData"
  /\ \E options \in StatOptions :
       \E out \in {calculateVolunteerHoursByContentWithOptions(hlOut.processed, options)} :
         hlOut' = [fn |-> "calculateVolunteerHoursByContentWithOptions",
                   processed |-> hlOut.processed, errors |-> hlOut.errors,
                   options |-> options, data |-> out.data,
                   contentTypes |-> out.contentTypes]
  /\ HourLogStatsFrame

\* the total hours of one content type, or of all when none is given, in
\* the years 2023 to 2025 as the upload handler asks for them
VolunteerTotalHours ==
  /\ hlOut.fn = "processHourLogData"
  /\ \E contentType \in {Retraining, <<>>} :
       \E out \in {calculateVolunteerTotalHoursForContentType(
                      hlOut.processed, contentType,
                      Options(<<>>, FALSE, 0, TRUE, 2023, TRUE, 2025))} :
         hlOut' = [fn |-> "calculateVolunteerTotalHoursForContentType",
                   processed |-> hlOut.processed, errors |-> hlOut.errors,
                   contentType |-> contentType, data |-> out.data]
  /\ HourLogStatsFrame

NextHourLogStats ==
  \/ ProcessHourLog
  \/ VolunteerHoursByContent
  \/ VolunteerTotalHours

SpecHourLogStats == InitHourLogStats /\ [][NextHourLogStats]_vars

\* the sum of a content type over the person rows
RECURSIVE TypeTotal(_, _)
TypeTotal(rows, c) ==
  IF rows = <<>> THEN 0
  ELSE rows[Len(rows)].cols[c] + TypeTotal(SubSeq(rows, 1, Len(rows) - 1), c)

\* the vocabulary and the unclassified label
VocabularyAndUnclassified == { TrailLeading, Retraining, Leading, Unclassified }

\* C19: in the result of calculateVolunteerHoursByContentWithOptions the
\* contentTypes are exactly the content types whose total over all person
\* rows is > 0, while every person row has a number, possibly 0, for every
\* type of the vocabulary and for the unclassified label.
C19_UsedContentTypes ==
  hlOut.fn = "calculateVolunteerHoursByContentWithOptions" =>
    /\ hlOut.contentTypes
         = { c \in VocabularyAndUnclassified : TypeTotal(hlOut.data, c) > 0 }
    /\ \A i \in 1..Len(hlOut.data) :
         /\ DOMAIN hlOut.data[i].cols = VocabularyAndUnclassified
         /\ \A c \in VocabularyAndUnclassified : hlOut.data[i].cols[c] \in Nat

\* C19 witness: two persons with hours in two content types of 2025: the
\* two types are the used ones, and both rows also have a 0 for a type that
\* nobody has hours in
C19_Witness ==
  /\ hlOut.fn = "calculateVolunteerHoursByContentWithOptions"
  /\ hlOut.options.hasYear /\ hlOut.options.years = <<>>
  /\ Len(hlOut.data) = 2
  /\ hlOut.contentTypes = { TrailLeading, Retraining }
  /\ hlOut.data[1].cols[Leading] = 0 /\ hlOut.data[2].cols[Leading] = 0
  /\ hlOut.data[1].cols[Unclassified] = 0 /\ hlOut.data[2].cols[Unclassified] = 0
  /\ hlOut.data[1].cols[TrailLeading] = 0 /\ hlOut.data[1].cols[Retraining] = 5

(***************************************************************************)
(* Every aggregate output, on manpower records or on hour-log rows         *)
(***************************************************************************)
MaxOutputRows == 2

\* rows with well-formed, malformed and reversed date annotations, and with
\* cells that hold no positive number
OutputRowInputs ==
  { SheetRow(D1129, Held, HandCraft, Taipei, NumberNum(2), NumberNum(4),
             <<"1", "1", "/", "2", "9", "-", "3", "0", FullColon>>
               \o NameJiaDated \o <<IdeoComma>> \o NameYi),
    SheetRow(D0630, Held, Trail, Hualien, NumberNum(1), NumberNum(4),
             NameJiaDated \o <<FullComma>> \o NameAYi),
    SheetRow(<<"1", "1", "/", "1">>, <<>>, <<>>, <<>>, NullNum, TextNaN, <<>>),
    \* a prefix whose range ends two days before it starts
    SheetRow(D1129, Held, Trail, Kinmen, NumberNum(1), NumberNum(5),
             <<"1", "1", "/", "3", "0", "-", "2", "8", ":">> \o NameJiaDated),
    \* a parenthetical whose range ends two days before it starts
    SheetRow(D1129, Held, HandCraft, Taichung, NumberNum(0 - 1), NumberNum(3),
             <<"jia", "(", "3", "0", "-", "2", "8", ")">>),
    \* a parenthetical with two dashes
    SheetRow(D0630, Held, HandCraft, Taipei, NumberNum(1), NumberNum(0 - 2),
             <<"yi", "(", "1", "-", "2", "-", "3", ")">>) }

InitOutputs ==
  \/ /\ engine \in Engines
     /\ HourLogAppIdle /\ ExportIdle
     /\ aliasMap = AggAliases
     /\ \E n \in 0..MaxOutputRows : \E file \in ManpowerFiles(OutputRowInputs, n) :
          data = filterCancelled(parseExcelFile(file).data)
     /\ aggOut = NoAggOut
     /\ loading = FALSE /\ error = "" /\ upload = NoUpload
     /\ DateIdle /\ PartIdle /\ ReconIdle /\ HourLogIdle /\ AliasIdle
  \/ InitHourLogStats

NextOutputs ==
  \/ NextAgg
  \/ ActivityTypeTotalCount
  \/ ActivityTypeTotalDays
  \/ CityTotalCount
  \/ CityTotalDays
  \/ RegionTotalCount
  \/ RegionTotalDays
  \/ NextHourLogStats

SpecOutputs == InitOutputs /\ [][NextOutputs]_vars

MatrixFunctions ==
  { "calculateMonthlyActivityTypeCount", "calculateMonthlyActivityTypeDays",
    "calculateMonthlyCityCount", "calculateMonthlyCityDays",
    "calculateMonthlyRegionCount", "calculateMonthlyRegionDays",
    "calculateParticipantCount", "calculateParticipantHours" }

TotalFunctions ==
  { "calculateActivityTypeTotalCount", "calculateActivityTypeTotalDays",
    "calculateCityTotalCount", "calculateCityTotalDays",
    "calculateRegionTotalCount", "calculateRegionTotalDays" }

MaxFilterRows == 2

\* rows of the years 2023, 2024 and 2025
FilterRows ==
  { StatRow(NameWangXiaoMing, TrailLeading, 2023, 1),
    StatRow(NameXiaoMing, Retraining, 2024, 2),
    StatRow(NameLiDaHua, Retraining, 2025, 4),
    StatRow(NameLiDaHua, TrailLeading, 2024, 8),
    StatRow(NameYi, <<>>, 2025, 16) }

FilterInputs(n) ==
  { [i \in 1..n |-> [name |-> r[i].name, date |-> r[i].date, content |-> r[i].content,
                      hours |-> r[i].hours, rowNumber |-> i + 1]] :
      r \in [1..n -> FilterRows] }

\* every combination of years: [2023], year: 2025, startYear: 2024 and
\* endYear: 2025 given or not
FilterOptions ==
  { Options(years, hasYear, 2025, hasStart, 2024, hasEnd, 2025) :
      years \in { <<>>, <<2023>> }, hasYear \in BOOLEAN,
      hasStart \in BOOLEAN, hasEnd \in BOOLEAN }

InitYearFilter ==
  /\ engine = "v8"
  /\ HourLogAppIdle /\ ExportIdle
  /\ aliasMap = HourLogAliases
  /\ \E n \in 0..MaxFilterRows : rawHourLog \in FilterInputs(n)
  /\ hlOut = NoHlOut
  /\ data = <<>> /\ loading = FALSE /\ error = "" /\ upload = NoUpload
  /\ DateIdle /\ PartIdle /\ AggIdle /\ ReconIdle /\ AliasIdle

HoursByContentDefault ==
  /\ hlOut.fn = "processHourLogData"
  /\ \E out \in {calculateVolunteerHoursByContent(hlOut.processed)} :
       hlOut' = [fn |-> "calculateVolunteerHoursByContent",
                 processed |-> hlOut.processed, errors |-> hlOut.errors,
                 data |-> out.data, contentTypes |-> out.contentTypes]
  /\ HourLogStatsFrame

HoursByContentWithOptions ==
  /\ hlOut.fn = "processHourLogData"
  /\ \E options \in FilterOptions :
       \E out \in {calculateVolunteerHoursByContentWithOptions(hlOut.processed, options)} :
         hlOut' = [fn |-> "calculateVolunteerHoursByContentWithOptions",
                   processed |-> hlOut.processed, errors |-> hlOut.errors,
                   options |-> options, data |-> out.data,
                   contentTypes |-> out.contentTypes]
  /\ HourLogStatsFrame

TotalHoursForContentType ==
  /\ hlOut.fn = "processHourLogData"
  /\ \E options \in FilterOptions : \E contentType \in {Retraining, <<>>} :
       \E out \in {calculateVolunteerTotalHoursForContentType(
                      hlOut.processed, contentType, options)} :
         hlOut' = [fn |-> "calculateVolunteerTotalHoursForContentType",
                   processed |-> hlOut.processed, errors |-> hlOut.errors,
                   options |-> options, contentType |-> contentType, data |-> out.data]
  /\ HourLogStatsFrame

NextYearFilter ==
  \/ ProcessHourLog
  \/ HoursByContentDefault
  \/ HoursByContentWithOptions
  \/ TotalHoursForContentType

SpecYearFilter == InitYearFilter /\ [][NextYearFilter]_vars

\* the filter as four cases, the first that applies deciding
YearPasses(y, options) ==
  IF options.years # <<>> THEN \E i \in 1..Len(options.years) : options.years[i] = y
  ELSE IF options.hasStart /\ options.hasEnd
       THEN options.startYear <= y /\ y <= options.endYear
  ELSE IF options.hasYear THEN y = options.year
  ELSE TRUE

\* the hours of the rows of a person and of a content type (of any when
\* content is <<>>) whose year passes
RECURSIVE HoursPassing(_, _, _, _)
HoursPassing(processed, name, content, options) ==
  IF processed = <<>> THEN 0
  ELSE LET r == processed[Len(processed)]
           mine == /\ r.standardName = name
                   /\ content = <<>> \/ r.matchedContentType = content
                   /\ YearPasses(getYear(r.date), options)
       IN (IF mine THEN r.hours ELSE 0)
            + HoursPassing(SubSeq(processed, 1, Len(processed) - 1), name, content, options)

StandardNames(processed) == { processed[i].standardName : i \in 1..Len(processed) }

\* the hours a person x content type result gives to a person and a type
ContentCell(rows, name, c) ==
  IF \E i \in 1..Len(rows) : rows[i].name = name
  THEN (CHOOSE r \in { rows[i] : i \in 1..Len(rows) } : r.name = name).cols[c]
  ELSE 0

\* the hours a person -> hours result gives to a person
HoursCell(rows, name) ==
  IF \E i \in 1..Len(rows) : rows[i].name = name
  THEN (CHOOSE r \in { rows[i] : i \in 1..Len(rows) } : r.name = name).hours
  ELSE 0

Only2025 == Options(<<>>, TRUE, 2025, FALSE, 0, FALSE, 0)

\* C21: the hours calculateVolunteerHoursByContentWithOptions and
\* calculateVolunteerTotalHoursForContentType give to a person are the hours
\* of exactly the person's rows whose year passes the filter: the years list
\* alone when it is not empty, else startYear..endYear inclusive when both
\* are given, else equality with year when given, else every row; and
\* calculateVolunteerHoursByContent counts the rows of 2025 only.
C21_YearFilter ==
  /\ hlOut.fn = "calculateVolunteerHoursByContentWithOptions" =>
       \A name \in StandardNames(hlOut.processed) : \A c \in AllContentTypes :
         ContentCell(hlOut.data, name, c)
           = HoursPassing(hlOut.processed, name, c, hlOut.options)
  /\ hlOut.fn = "calculateVolunteerTotalHoursForContentType" =>
       \A name \in StandardNames(hlOut.processed) :
         HoursCell(hlOut.data, name)
           = HoursPassing(hlOut.processed, name, hlOut.contentType, hlOut.options)
  /\ hlOut.fn = "calculateVolunteerHoursByContent" =>
       \A name \in StandardNames(hlOut.processed) : \A c \in AllContentTypes :
         ContentCell(hlOut.data, name, c) = HoursPassing(hlOut.processed, name, c, Only2025)

\* C21 witness: the total hours of a row of 2025 and a row of 2024 under
\* options that give the years list [2023], the range 2024..2025 and the
\* year 2025 at once: the list decides and no row is counted
C21_Witness ==
  /\ hlOut.fn = "calculateVolunteerTotalHoursForContentType"
  /\ hlOut.options.years = <<2023>> /\ hlOut.options.hasYear
  /\ hlOut.options.hasStart /\ hlOut.options.hasEnd
  /\ hlOut.contentType = <<>>
  /\ Len(hlOut.processed) = 2
  /\ getYear(hlOut.processed[1].date) = 2025 /\ getYear(hlOut.processed[2].date) = 2024
  /\ hlOut.data = <<>>

(***************************************************************************)
(* App: the hour-log upload, and the two uploads side by side              *)
(***************************************************************************)
MaxUploadRows == 1

NoValidHourLogMessage == "no valid hour-log data"

\* a row parseHourLogFile keeps and one it drops for its 0 hours
HourLogUploadRows ==
  { HourLogSheetRow(<<"wang", "xiao", "ming">>, TextCell(<<"1", "/", "3">>), Leading,
                    NumberNum(2)),
    HourLogSheetRow(<<"wang", "xiao", "ming">>, TextCell(<<"1", "/", "3">>), Retraining,
                    NumberNum(0)) }

\* a manpower row that is kept, a cancelled one and one without a date
ManpowerUploadRows ==
  { SheetRow(D1129, Held, HandCraft, Taipei, NumberNum(2), NumberNum(4), NameJia),
    SheetRow(D0630, CancelMark, Trail, Taipei, NumberNum(1), NumberNum(2), NameYi),
    SheetRow(<<>>, Held, Trail, Taichung, NumberNum(1), NumberNum(2), NameJia) }

HourLogFiles(n) ==
  { [readable |-> TRUE, sheet |-> TRUE, rows |-> r] : r \in [1..n -> HourLogUploadRows] }

\* HourLogUploadFrame of a handler that also calls setData([])
HourLogUploadFrameClearingData ==
  /\ data' = <<>>
  /\ UNCHANGED << exportVars, engine, aliasMap, dateVars, partVars, aggVars, reconVars,
                  hourLogVars, aliasVars, appVars >>

\* handleHourLogUpload calls setLoadingHourLog, setErrorHourLog and
\* setHourLogData only
HourLogUploadFrame ==
  UNCHANGED << exportVars, engine, aliasMap, dateVars, partVars, data, aggVars, reconVars,
               hourLogVars, aliasVars, appVars >>

\* handleHourLogUpload up to its await: parseHourLogFile(file) is called and
\* its promise, held with what it will settle to, is awaited; the file input
\* is disabled while loadingHourLog is set
HourLogUploadStart ==
  /\ ~loadingHourLog
  /\ \E n \in 0..MaxUploadRows : \E file \in HourLogFiles(n) \cup BrokenFiles :
       uploadHourLog' = [pc |-> "parsing", file |-> file,
                         promise |-> parseHourLogFile(file)]
  /\ loadingHourLog' = TRUE
  /\ errorHourLog' = ""
  /\ hourLogData' = NoHourLogData
  /\ HourLogUploadFrame

\* { ...stats, retraining: retrainingStats }
LoadedHourLogData(stats, retrainingStats) ==
  [loaded |-> TRUE, data |-> stats.data, contentTypes |-> stats.contentTypes,
   retraining |-> retrainingStats.data]

\* the await resolves: the error message, or processedData, stats and
\* retrainingStats and the statistics set from them
SetHourLogResult(rawData) ==
  IF Len(rawData) = 0
  THEN errorHourLog' = NoValidHourLogMessage /\ hourLogData' = hourLogData
  ELSE /\ \E processedData \in {processHourLogData(rawData).processed} :
            \E stats \in {calculateVolunteerHoursByContent(processedData)} :
              \E retrainingStats \in
                   {calculateVolunteerTotalHoursForContentType(
                      processedData, Retraining,
                      Options(<<>>, FALSE, 0, TRUE, 2023, TRUE, 2025))} :
                hourLogData' = LoadedHourLogData(stats, retrainingStats)
       /\ errorHourLog' = errorHourLog

HourLogUploadResolved ==
  /\ uploadHourLog.pc = "parsing"
  /\ ~uploadHourLog.promise.threw
  /\ uploadHourLog' = [uploadHourLog EXCEPT !.pc = "idle"]
  /\ loadingHourLog' = FALSE
  /\ HourLogUploadFrame
  /\ \E rawData \in {uploadHourLog.promise} : SetHourLogResult(rawData.data)

\* the await rejects: the catch block
HourLogUploadRejected ==
  /\ uploadHourLog.pc = "parsing"
  /\ uploadHourLog.promise.threw
  /\ uploadHourLog' = [uploadHourLog EXCEPT !.pc = "idle"]
  /\ loadingHourLog' = FALSE
  /\ HourLogUploadFrame
  /\ errorHourLog' = uploadHourLog.promise.message
  /\ hourLogData' = hourLogData

\* a manpower upload of a workbook of up to MaxUploadRows rows, or of a
\* broken one, chosen in the file input while it is enabled
ManpowerUploadStartBeside ==
  /\ ~loading
  /\ \E n \in 0..MaxUploadRows :
       ManpowerUploadStartOf(ManpowerFiles(ManpowerUploadRows, n) \cup BrokenFiles)

NextUploads ==
  \/ ManpowerUploadStartBeside
  \/ ManpowerUploadResolved
  \/ ManpowerUploadRejected
  \/ HourLogUploadStart
  \/ HourLogUploadResolved
  \/ HourLogUploadRejected

SpecUploads == InitApp /\ [][NextUploads]_vars

\* a manpower upload, or an hour-log upload, completes in this step
ManpowerCompletes == upload.pc = "parsing" /\ upload'.pc = "idle"
HourLogCompletes == uploadHourLog.pc = "parsing" /\ uploadHourLog'.pc = "idle"

\* the workbook is read but has not the expected sheet
SheetMissing(file) == file.readable /\ ~file.sheet

\* the parse succeeds and no record is left
NoValidManpower(file) ==
  /\ file.readable /\ file.sheet
  /\ filterCancelled(parseExcelFile(file).data) = <<>>

NoValidHourLog(file) ==
  /\ file.readable /\ file.sheet
  /\ parseHourLogFile(file).data = <<>>

\* C22: an upload of a workbook without the expected sheet ends with the
\* thrown message as the error and with no data; an upload that parses into
\* no valid record ends with the "no valid data" message, which is another
\* message, and with no data; this holds for the manpower and for the
\* hour-log upload, and in none of these cases is there data of that file
\* for the statistics.
C22_FatalOutcomes ==
  [][ /\ ManpowerCompletes =>
           /\ SheetMissing(upload.file) => error' = NoSheetMessage /\ data' = <<>>
           /\ NoValidManpower(upload.file) => error' = NoValidDataMessage /\ data' = <<>>
           /\ NoValidDataMessage # NoSheetMessage
      /\ HourLogCompletes =>
           /\ SheetMissing(uploadHourLog.file) =>
                errorHourLog' = NoFormSheetMessage /\ hourLogData' = NoHourLogData
           /\ NoValidHourLog(uploadHourLog.file) =>
                errorHourLog' = NoValidHourLogMessage /\ hourLogData' = NoHourLogData
           /\ NoValidHourLogMessage # NoFormSheetMessage ]_vars

\* C22 witness: a manpower upload of a workbook without the sheet and an
\* hour-log upload of one row that is dropped have both completed
C22_Witness ==
  /\ upload.pc = "idle" /\ ~loading
  /\ SheetMissing(upload.file)
  /\ error = NoSheetMessage /\ data = <<>>
  /\ uploadHourLog.pc = "idle" /\ ~loadingHourLog
  /\ Len(uploadHourLog.file.rows) = 1
  /\ errorHourLog = NoValidHourLogMessage /\ hourLogData = NoHourLogData

\* what a manpower upload of a file leaves: the message and the records
ManpowerOutcome(file) ==
  LET rawData == parseExcelFile(file)
      filteredData == filterCancelled(rawData.data)
  IN IF rawData.threw THEN [error |-> rawData.message, data |-> <<>>]
     ELSE IF filteredData = <<>> THEN [error |-> NoValidDataMessage, data |-> <<>>]
     ELSE [error |-> "", data |-> filteredData]

\* C28: while no manpower upload is loading, an error message and non-empty
\* activity data are never there together; and the step that completes a
\* manpower upload leaves exactly one of the two, namely what the uploaded
\* file gives and nothing of the upload before it. The file input is
\* disabled while loading is set.
C28_ErrorOrData ==
  /\ [](~loading => ~(error # "" /\ data # <<>>))
  /\ [][ManpowerCompletes =>
          /\ (error' # "") # (data' # <<>>)
          /\ error' = ManpowerOutcome(upload.file).error
          /\ data' = ManpowerOutcome(upload.file).data]_vars

\* C28 witness: an upload of a cancelled row has completed: the message is
\* set and there is no data
C28_Witness ==
  /\ upload.pc = "idle" /\ ~loading
  /\ Len(upload.file.rows) = 1
  /\ upload.file.rows[1].status = CancelMark
  /\ upload.file.readable /\ upload.file.sheet
  /\ error = NoValidDataMessage
  /\ data = <<>>

\* a step of handleHourLogUpload, and one of handleManpowerUpload
HourLogStep == uploadHourLog' # uploadHourLog
ManpowerStep == upload' # upload

\* C30: in every interleaving of the two uploads, a step of
\* handleHourLogUpload leaves data, loading and error as they are, and a
\* step of handleManpowerUpload leaves hourLogData, loadingHourLog and
\* errorHourLog as they are.
C30_Independent ==
  [][ /\ HourLogStep => UNCHANGED << data, loading, error >>
      /\ ManpowerStep => UNCHANGED << hourLogData, loadingHourLog, errorHourLog >> ]_vars

\* C30 witness: the hour-log statistics are loaded and a manpower upload of
\* an unreadable workbook has failed: the statistics are there next to the
\* manpower error
C30_Witness ==
  /\ hourLogData.loaded /\ ~loadingHourLog /\ errorHourLog = ""
  /\ upload.pc = "idle" /\ ~loading
  /\ ~upload.file.readable
  /\ error = ReadErrorMessage /\ data = <<>>

\* the file read of a started upload settles: the continuation of the
\* handler after its await is run
SpecUploadsFair ==
  /\ InitApp /\ [][NextUploads]_vars
  /\ WF_vars(ManpowerUploadResolved \/ ManpowerUploadRejected)
  /\ WF_vars(HourLogUploadResolved \/ HourLogUploadRejected)

\* C29: every started upload, manpower or hour-log, eventually has its
\* loading flag back at false, whether the parse resolves with records,
\* resolves with none or rejects.
C29_LoadingEnds ==
  /\ loading ~> ~loading
  /\ loadingHourLog ~> ~loadingHourLog

\* C29 witness: a manpower upload whose parse rejected and an hour-log
\* upload whose parse resolved with no record have both set their flags back
C29_Witness ==
  /\ upload.pc = "idle" /\ ~loading
  /\ ~upload.file.readable /\ error = ReadErrorMessage
  /\ uploadHourLog.pc = "idle" /\ ~loadingHourLog
  /\ uploadHourLog.file.readable /\ uploadHourLog.file.sheet
  /\ uploadHourLog.file.rows = <<>>
  /\ errorHourLog = NoValidHourLogMessage

\* ------------------------------------------------------------------------
\* The two day-count routines side by side

\* the date texts of the forms M/D, M/D-D2 and M/D-M2/D2
DatePrefixTexts == SingleTexts \cup ShortRangeTexts \cup LongRangeTexts

\* C23: the two day-count routines agree.  For every date text d of the forms
\* M/D, M/D-D2 and M/D-M2/D2 and every activity date, the day count
\* parseDateRange gives for d equals the day count parseNameWithDate gives
\* for name(d).
C23_DayCountsAgree ==
  (dateOut.op = "parseDateRange" /\ dateValue.text \in DatePrefixTexts) =>
    \A open \in OpenParens, close \in CloseParens :
      dateOut.range.n
        = parseNameWithDate(NameJia \o <<open>> \o dateValue.text \o <<close>>,
                            activityDate).days

\* C27: every entry parseParticipants produces has a day count that is an
\* integer >= 0, for every cell text, also when the date in front of a line
\* ends before it starts.
C27_DaysNonNegative ==
  partOut.done => \A i \in 1..Len(partOut.list) : partOut.list[i].days \in Nat

\* ------------------------------------------------------------------------
\* The month x category pivots against the category totals

MonthlyFunctions ==
  { "calculateMonthlyActivityTypeCount", "calculateMonthlyActivityTypeDays",
    "calculateMonthlyCityCount", "calculateMonthlyCityDays",
    "calculateMonthlyRegionCount", "calculateMonthlyRegionDays" }

MonthlyCountFunctions ==
  { "calculateMonthlyActivityTypeCount", "calculateMonthlyCityCount",
    "calculateMonthlyRegionCount" }

\* the category totals of the dimension and measure of a monthly function
TotalsBeside(fn, records) ==
  CASE fn = "calculateMonthlyActivityTypeCount" -> calculateActivityTypeTotalCount(records)
    [] fn = "calculateMonthlyActivityTypeDays" -> calculateActivityTypeTotalDays(records)
    [] fn = "calculateMonthlyCityCount" -> calculateCityTotalCount(records)
    [] fn = "calculateMonthlyCityDays" -> calculateCityTotalDays(records)
    [] fn = "calculateMonthlyRegionCount" -> calculateRegionTotalCount(records)
    [] fn = "calculateMonthlyRegionDays" -> calculateRegionTotalDays(records)

\* the sum of all cells of the month rows
RECURSIVE MatrixSum(_)
MatrixSum(rows) ==
  IF rows = <<>> THEN 0 ELSE SumValues(Head(rows).cols) + MatrixSum(Tail(rows))

\* the categories of the month rows and of the totals
PivotCategories(rows, totals) ==
  UNION { DOMAIN rows[i].cols : i \in 1..Len(rows) }
    \cup { totals[i].name : i \in 1..Len(totals) }

MaxExportRows == 1

\* manpower rows: two persons with hand-craft hours, one of them under an
\* alias; a person with trail hours; a cancelled activity; a parenthetical
\* with two dashes
ExportManpowerRows ==
  { SheetRow(D1129, Held, HandCraft, Taipei, NumberNum(2), NumberNum(4),
             NameJia \o <<IdeoComma>> \o NameAYi),
    SheetRow(D0630, Held, Trail, Hualien, NumberNum(1), NumberNum(4), NameBing),
    SheetRow(D0630, CancelMark, Trail, Taipei, NumberNum(1), NumberNum(2), NameYi),
    SheetRow(D0630, Held, HandCraft, Taipei, NumberNum(1), NumberNum(2),
             <<"yi", "(", "1", "-", "2", "-", "3", ")">>) }

\* hour-log rows: trail leading hours of two persons, retraining hours of a
\* third, and hand-craft-sized trail leading hours that cancel a difference
ExportHourLogRows ==
  { HourLogSheetRow(<<"lin", "a", "yi">>, TextCell(<<"1", "/", "3">>), TrailLeading,
                    NumberNum(2)),
    HourLogSheetRow(NameJia, TextCell(<<"1", "/", "3">>), TrailLeading, NumberNum(3)),
    HourLogSheetRow(NameJia, TextCell(<<"1", "/", "3">>), TrailLeading, NumberNum(4)),
    HourLogSheetRow(<<"wang", "xiao", "ming">>, TextCell(<<"1", "/", "3">>), Retraining,
                    NumberNum(3)) }

\* hourLogData as handleHourLogUpload leaves it for the rows parseHourLogFile
\* resolved with: null when there are none
HourLogDataOf(rawData) ==
  IF Len(rawData) = 0 THEN NoHourLogData
  ELSE Only({ LoadedHourLogData(
                calculateVolunteerHoursByContent(processedData),
                calculateVolunteerTotalHoursForContentType(
                  processedData, Retraining, Options(<<>>, FALSE, 0, TRUE, 2023, TRUE, 2025)))
              : processedData \in {processHourLogData(rawData).processed} })

\* the App holds the results of the two uploads, neither is in flight
InitExport ==
  /\ engine \in Engines
  /\ aliasMap = AggAliases
  /\ \E n \in 0..MaxExportRows : \E file \in ManpowerFiles(ExportManpowerRows, n) :
       data = filterCancelled(parseExcelFile(file).data)
  /\ \E n \in 0..MaxExportRows : \E file \in ManpowerFiles(ExportHourLogRows, n) :
       hourLogData = HourLogDataOf(parseHourLogFile(file).data)
  /\ loading = FALSE /\ error = "" /\ upload = NoUpload
  /\ loadingHourLog = FALSE /\ errorHourLog = "" /\ uploadHourLog = NoUpload
  /\ ExportIdle
  /\ DateIdle /\ PartIdle /\ AggIdle /\ ReconIdle /\ HourLogIdle /\ AliasIdle

ExportFrame ==
  UNCHANGED << hourLogAppVars, engine, aliasMap, dateVars, partVars, data, aggVars,
               reconVars, hourLogVars, aliasVars, appVars >>

\* Array.isArray(data) && data.length > 0
hasManpower == data # <<>>

\* !!(hourLogData && hourLogData.data && hourLogData.data.length > 0)
hasHourLog == hourLogData.loaded /\ hourLogData.data # <<>>

\* the sheet names of the addStackedBarSheet and addPieSheet calls of the
\* manpower block, in the order of the calls
ManpowerSheetNames ==
  << 1, 2, 3, 4, 5, 6, 7, 8, 9, 10, 11, 12, 13, 14, 15, 16, 17, 18, 19, 20 >>

\* AddWorksheet putting the sheet in front of the others
AddWorksheetInFront(sheets, sheetName, rows) ==
  << [name |-> sheetName, rows |-> rows] >> \o sheets

\* workbook.addWorksheet(String(sheetName)) and the rows added to it; the
\* rows are kept for the difference sheet only
AddWorksheet(sheets, sheetName, rows) == Append(sheets, [name |-> sheetName, rows |-> rows])

\* the call: the test of the two datasets, and the aggregates of the manpower
\* block, computed before its first sheet; participantHours is kept for the
\* difference sheet
ExportStart ==
  /\ exportRun.pc = "idle"
  /\ IF ~hasManpower /\ ~hasHourLog
     THEN exportRun' = [exportRun EXCEPT !.pc = "threw"]
     ELSE IF ~hasManpower
     THEN exportRun' = [exportRun EXCEPT !.pc = "hourLog"]
     ELSE \E participantHoursResult \in {calculateParticipantHours(data)} :
            IF participantHoursResult.threw
            THEN exportRun' = [exportRun EXCEPT !.pc = "threw"]
            ELSE exportRun' = [exportRun EXCEPT
                                 !.pc = "manpower",
                                 !.participantHoursForDifference = participantHoursResult.rows]
  /\ ExportFrame

\* the next addStackedBarSheet or addPieSheet call of the manpower block
AddManpowerSheet ==
  /\ exportRun.pc = "manpower"
  /\ \E i \in {Cardinality({ j \in 1..Len(exportRun.sheets) :
                              exportRun.sheets[j].name \in 1..20 }) + 1} :
       exportRun' = [exportRun EXCEPT
                       !.sheets = AddWorksheet(@, ManpowerSheetNames[i], <<>>),
                       !.pc = IF i = Len(ManpowerSheetNames) THEN "hourLog" ELSE "manpower"]
  /\ ExportFrame

\* if (hasHourLog): sheet 21
AddHourLogSheet ==
  /\ exportRun.pc = "hourLog"
  /\ exportRun' = IF hasHourLog
                  THEN [exportRun EXCEPT !.sheets = AddWorksheet(@, 21, <<>>),
                                         !.pc = "retraining"]
                  ELSE [exportRun EXCEPT !.pc = "difference"]
  /\ ExportFrame

\* inside if (hasHourLog): sheet 22 when retraining.data has rows
AddRetrainingSheet ==
  /\ exportRun.pc = "retraining"
  /\ exportRun' = IF hourLogData.retraining # <<>>
                  THEN [exportRun EXCEPT !.sheets = AddWorksheet(@, 22, <<>>),
                                         !.pc = "difference"]
                  ELSE [exportRun EXCEPT !.pc = "difference"]
  /\ ExportFrame

\* sheet 23: with both datasets, the difference rows when there are any
AddDifferenceSheet ==
  /\ exportRun.pc = "difference"
  /\ IF hasManpower /\ hasHourLog
     THEN \E rows \in {differenceRows(exportRun.participantHoursForDifference,
                                      hourLogData.data)} :
            exportRun' = [exportRun EXCEPT
                            !.sheets = IF Len(rows) > 0 THEN AddWorksheet(@, 23, rows) ELSE @,
                            !.pc = "write"]
     ELSE exportRun' = [exportRun EXCEPT !.pc = "write"]
  /\ ExportFrame

\* writeBuffer and downloadBufferAsFile
WriteFile ==
  /\ exportRun.pc = "write"
  /\ exportRun' = [exportRun EXCEPT !.pc = "done", !.file = TRUE]
  /\ ExportFrame

NextExport ==
  \/ ExportStart
  \/ AddManpowerSheet
  \/ AddHourLogSheet
  \/ AddRetrainingSheet
  \/ AddDifferenceSheet
  \/ WriteFile

SpecExport == InitExport /\ [][NextExport]_vars

\* the rows of the sheet of a name, none when the workbook has no such sheet
SheetRows(sheets, sheetName) ==
  IF \E i \in 1..Len(sheets) : sheets[i].name = sheetName
  THEN (CHOOSE sheet \in { sheets[i] : i \in 1..Len(sheets) } : sheet.name = sheetName).rows
  ELSE <<>>

\* the difference data chart 23 draws from the same props: none when one of
\* the two datasets is missing
ChartDifferenceData ==
  IF hasManpower /\ hasHourLog
  THEN NameAndDifference(differenceData(calculateParticipantHours(data).rows,
                                        hourLogData.data))
  ELSE <<>>

\* C24: the difference report of the export equals the one of the chart.
\* For the same activity records and the same hour-log aggregate the rows of
\* sheet 23 have the names, the differences and the order of the difference
\* data of chart 23, and the two sides of each row are the hours of that name
\* in the output of calculateParticipantHours and in the hour-log rows keyed
\* by standardName.
C24_ExportEqualsChart ==
  exportRun.pc \in {"write", "done"} =>
    /\ SheetRows(exportRun.sheets, 23) = ChartDifferenceData
    /\ \A i \in 1..Len(SheetRows(exportRun.sheets, 23)) :
         LET row == SheetRows(exportRun.sheets, 23)[i]
         IN row.difference
              = HoursOf(calculateParticipantHours(data).rows, HandCraft, row.name)
                  - HoursOf(hourLogData.data, TrailLeading, row.name)

\* C24 witness: jia and "a yi" (an alias of yi) had 4 hand-craft hours each,
\* jia reported 3 trail leading hours: sheet 23 lists yi with 4, then jia
\* with 1
C24_Witness ==
  /\ exportRun.pc = "done"
  /\ Len(data) = 1 /\ Len(data[1].participants) = 2
  /\ data[1].participants[2].name = NameAYi
  /\ SheetRows(exportRun.sheets, 23)
       = << [name |-> NameYi, difference |-> 4], [name |-> NameJia, difference |-> 1] >>

\* the names of the sheets of the workbook, in the order they were added
SheetNames(sheets) == [i \in 1..Len(sheets) |-> sheets[i].name]

\* the sheets the data on screen calls for, in the order of their numbers
RECURSIVE Ascending(_)
Ascending(S) ==
  IF S = {} THEN <<>>
  ELSE LET least == CHOOSE x \in S : \A y \in S : x <= y
       IN << least >> \o Ascending(S \ {least})

SheetsCalledFor ==
  (IF hasManpower THEN 1..20 ELSE {})
    \cup (IF hasHourLog THEN {21} ELSE {})
    \cup (IF hourLogData.retraining # <<>> THEN {22} ELSE {})
    \cup (IF hasManpower /\ hasHourLog /\ ChartDifferenceData # <<>> THEN {23} ELSE {})

\* a step of the export adds at most one sheet, behind the others and with a
\* greater number than each of them
AddsInOrder ==
  \/ exportRun'.sheets = exportRun.sheets
  \/ /\ Len(exportRun'.sheets) = Len(exportRun.sheets) + 1
     /\ SubSeq(exportRun'.sheets, 1, Len(exportRun.sheets)) = exportRun.sheets
     /\ \A i \in 1..Len(exportRun.sheets) :
          exportRun.sheets[i].name < exportRun'.sheets[Len(exportRun'.sheets)].name

====
